---------------------------- MODULE Spec2Model ----------------------------
(***************************************************************************)
(* A model of the fare engine of the Aye Auto meter application: the       *)
(* tariff record kept in the key-value store, the settings screen that     *)
(* edits and saves it, the useFareCalculator hook that prices a distance,  *)
(* the meter screen's manual-distance entry and the trip planner's         *)
(* estimate.                                                               *)
(*                                                                         *)
(* JavaScript numbers are modelled as exact rationals together with the    *)
(* non-finite values NaN and +/-Infinity; JSON adds null.  Every input the *)
(* model draws is a dyadic rational of small magnitude (halves and         *)
(* quarters), for which IEEE-754 double arithmetic is exact, so the        *)
(* rational arithmetic below computes what the program computes.           *)
(***************************************************************************)
EXTENDS Integers, Sequences, FiniteSets, TLC

(***************************************************************************)
(* JavaScript number values.                                               *)
(***************************************************************************)
RECURSIVE GCD(_, _)
GCD(a, b) == IF b = 0 THEN a ELSE GCD(b, a % b)

Abs(n) == IF n < 0 THEN -n ELSE n

\* The finite number n/d (d > 0), in lowest terms.
Fin(n, d) ==
    LET g == GCD(Abs(n), d)
    IN  [k |-> "num", n |-> n \div g, d |-> d \div g]

Whole(n) == Fin(n, 1)

NaN == [k |-> "nan", n |-> 0, d |-> 1]

Infinity == [k |-> "inf", n |-> 1, d |-> 1]

NegInfinity == [k |-> "inf", n |-> -1, d |-> 1]

\* JSON null, as JSON.parse returns it.
Null == [k |-> "null", n |-> 0, d |-> 1]

IsFinite(x) == x.k = "num"

\* ToNumber: null is coerced to 0 by every arithmetic and relational operator.
ToNumber(x) == IF x.k = "null" THEN Whole(0) ELSE x

Sign(x) == IF x.n > 0 THEN 1 ELSE IF x.n < 0 THEN -1 ELSE 0

Signed(s) == IF s > 0 THEN Infinity ELSE NegInfinity

\* a + b
JsAdd(a0, b0) ==
    LET a == ToNumber(a0)
        b == ToNumber(b0)
    IN  IF a.k = "nan" \/ b.k = "nan" THEN NaN
        ELSE IF a.k = "inf" /\ b.k = "inf"
             THEN IF a.n = b.n THEN a ELSE NaN
        ELSE IF a.k = "inf" THEN a
        ELSE IF b.k = "inf" THEN b
        ELSE Fin(a.n * b.d + b.n * a.d, a.d * b.d)

\* -a
JsNeg(a0) ==
    LET a == ToNumber(a0)
    IN  IF a.k = "nan" THEN NaN
        ELSE IF a.k = "inf" THEN Signed(-a.n)
        ELSE Fin(-a.n, a.d)

\* a - b
JsSub(a, b) == JsAdd(a, JsNeg(b))

\* a * b
JsMul(a0, b0) ==
    LET a == ToNumber(a0)
        b == ToNumber(b0)
    IN  IF a.k = "nan" \/ b.k = "nan" THEN NaN
        ELSE IF a.k = "inf" \/ b.k = "inf"
             THEN IF Sign(a) * Sign(b) = 0 THEN NaN
                  ELSE Signed(Sign(a) * Sign(b))
        ELSE Fin(a.n * b.n, a.d * b.d)

\* a <= b (false as soon as an operand is NaN)
JsLe(a0, b0) ==
    LET a == ToNumber(a0)
        b == ToNumber(b0)
    IN  IF a.k = "nan" \/ b.k = "nan" THEN FALSE
        ELSE IF a.k = "inf" THEN a.n < 0 \/ (b.k = "inf" /\ b.n > 0)
        ELSE IF b.k = "inf" THEN b.n > 0
        ELSE a.n * b.d <= b.n * a.d

\* a > b (false as soon as an operand is NaN)
JsGt(a0, b0) ==
    LET a == ToNumber(a0)
        b == ToNumber(b0)
    IN  IF a.k = "nan" \/ b.k = "nan" THEN FALSE
        ELSE ~JsLe(a, b)

\* Math.max(a, b) of two numbers
MathMax(a, b) ==
    IF ToNumber(a).k = "nan" \/ ToNumber(b).k = "nan" THEN NaN
    ELSE IF JsLe(a, b) THEN ToNumber(b) ELSE ToNumber(a)

\* Math.round: floor(x + 1/2), so an exact half goes toward +Infinity;
\* NaN and the infinities are returned as they are.
MathRound_Truncate(x0) ==
    LET x == ToNumber(x0)
    IN  IF x.k # "num" THEN x ELSE Whole(x.n \div x.d)

MathRound_HalfEven(x0) ==
    LET x == ToNumber(x0)
        f == x.n \div x.d
    IN  IF x.k # "num" THEN x
        ELSE IF 2 * (x.n - f * x.d) = x.d
             THEN (IF f % 2 = 0 THEN Whole(f) ELSE Whole(f + 1))
        ELSE Whole((2 * x.n + x.d) \div (2 * x.d))

MathRound(x0) ==
    LET x == ToNumber(x0)
    IN  IF x.k # "num" THEN x
        ELSE Whole((2 * x.n + x.d) \div (2 * x.d))

\* a !== b of two numbers or nulls
JsStrictNe(a, b) == a.k = "nan" \/ b.k = "nan" \/ a # b

\* A value is truthy unless it is 0, NaN or null (x || 0).
Truthy(x) == ~(x.k = "nan" \/ x.k = "null" \/ (x.k = "num" /\ x.n = 0))

OrZero(x) == IF Truthy(x) THEN x ELSE Whole(0)

(***************************************************************************)
(* Text typed into an input field is a sequence of characters;             *)
(* parseFloat reads its longest numeric prefix.                            *)
(***************************************************************************)
Digits == {"0", "1", "2", "3", "4", "5", "6", "7", "8", "9"}

DigitValue(c) ==
    CASE c = "0" -> 0 [] c = "1" -> 1 [] c = "2" -> 2 [] c = "3" -> 3
      [] c = "4" -> 4 [] c = "5" -> 5 [] c = "6" -> 6 [] c = "7" -> 7
      [] c = "8" -> 8 [] c = "9" -> 9

InfinityWord == <<"I", "n", "f", "i", "n", "i", "t", "y">>

\* The text from position i on.
From(s, i) == SubSeq(s, i, Len(s))

HasPrefix(s, p) == Len(s) >= Len(p) /\ SubSeq(s, 1, Len(p)) = p

\* The number of leading characters of s that are in set C.
RECURSIVE Span(_, _)
Span(s, C) ==
    IF s # <<>> /\ Head(s) \in C THEN 1 + Span(Tail(s), C) ELSE 0

\* The value of a digit string read in base ten.
RECURSIVE DecimalValue(_)
DecimalValue(s) ==
    IF s = <<>> THEN 0
    ELSE 10 * DecimalValue(SubSeq(s, 1, Len(s) - 1)) + DigitValue(s[Len(s)])

RECURSIVE Pow10(_)
Pow10(k) == IF k = 0 THEN 1 ELSE 10 * Pow10(k - 1)

\* parseFloat(text): leading blanks, a sign, then "Infinity" or
\* digits [. digits] or . digits; NaN when no number starts the text.
parseFloat(text) ==
    LET s0    == From(text, Span(text, {" "}) + 1)
        neg   == s0 # <<>> /\ Head(s0) = "-"
        s1    == IF s0 # <<>> /\ Head(s0) \in {"-", "+"} THEN Tail(s0) ELSE s0
        ni    == Span(s1, Digits)
        s2    == From(s1, ni + 1)
        dot   == s2 # <<>> /\ Head(s2) = "."
        nf    == IF dot THEN Span(Tail(s2), Digits) ELSE 0
        ipart == DecimalValue(SubSeq(s1, 1, ni))
        fpart == IF nf = 0 THEN 0 ELSE DecimalValue(SubSeq(s2, 2, nf + 1))
        mag   == Fin(ipart * Pow10(nf) + fpart, Pow10(nf))
    IN  IF HasPrefix(s1, InfinityWord)
            THEN (IF neg THEN NegInfinity ELSE Infinity)
        ELSE IF ni = 0 /\ nf = 0 THEN NaN
        ELSE IF neg THEN JsNeg(mag) ELSE mag

(***************************************************************************)
(* JSON.stringify writes a non-finite number as null; JSON.parse gives     *)
(* back what was written.                                                  *)
(***************************************************************************)
StringifyNumber(x) == IF x.k = "num" THEN x ELSE Null

JSONstringify(s) ==
    [baseFare     |-> StringifyNumber(s.baseFare),
     baseDistance |-> StringifyNumber(s.baseDistance),
     ratePerKm    |-> StringifyNumber(s.ratePerKm)]

JSONparse(j) == j

(***************************************************************************)
(* The tariff and the fare engine (useFareCalculator).                     *)
(***************************************************************************)
DEFAULT_MIN_CHARGE == Whole(30)

DEFAULT_BASE_DISTANCE == Fin(3, 2)

DEFAULT_RATE_PER_KM == Whole(15)

NIGHT_SURCHARGE == Fin(1, 2)

DEFAULT_SETTINGS ==
    [baseFare     |-> DEFAULT_MIN_CHARGE,
     baseDistance |-> DEFAULT_BASE_DISTANCE,
     ratePerKm    |-> DEFAULT_RATE_PER_KM]

\* isNightTime() at local hour h.
isNightTime_From23(h) == h >= 23 \/ h < 5

isNightTime(h) == h >= 22 \/ h < 5

\* loadFareSettings: item is what the store holds under 'fareSettings'
\* (<<>> when there is no record); ok is FALSE when getItem rejects or the
\* text does not parse, which the catch turns into the defaults.
loadFareSettings_NoFallback(item, ok) ==
    IF item # <<>> THEN JSONparse(item[1])
    ELSE [baseFare |-> Null, baseDistance |-> Null, ratePerKm |-> Null]

loadFareSettings(item, ok) ==
    IF ok /\ item # <<>> THEN JSONparse(item[1]) ELSE DEFAULT_SETTINGS

\* settings || fareSettings: the settings argument is optional (<<>> when
\* it is not passed); an object is always truthy.
currentSettingsOf_Cached(settings, fareSettings) == fareSettings

currentSettingsOf(settings, fareSettings) ==
    IF settings # <<>> THEN settings[1] ELSE fareSettings

\* _calculateFareInternal(distanceKm, isNightActive, settings), with the
\* hook's fareSettings state it closes over.
calculateFareInternal_RoundBeforeSurcharge(distanceKm, isNightActive, settings, fareSettings) ==
    LET cs   == currentSettingsOf(settings, fareSettings)
        base == IF JsLe(distanceKm, cs.baseDistance)
                THEN cs.baseFare
                ELSE JsAdd(cs.baseFare,
                           JsMul(cs.ratePerKm, JsSub(distanceKm, cs.baseDistance)))
    IN  IF isNightActive
        THEN MathRound(JsMul(MathRound(base), JsAdd(Whole(1), NIGHT_SURCHARGE)))
        ELSE MathRound(base)

calculateFareInternal_NoBaseBeyond(distanceKm, isNightActive, settings, fareSettings) ==
    LET cs   == currentSettingsOf(settings, fareSettings)
        base == IF JsLe(distanceKm, cs.baseDistance)
                THEN cs.baseFare
                ELSE JsMul(cs.ratePerKm, JsSub(distanceKm, cs.baseDistance))
        f    == IF isNightActive
                THEN JsMul(base, JsAdd(Whole(1), NIGHT_SURCHARGE))
                ELSE base
    IN  MathRound(f)

calculateFareInternal_WholeDistance(distanceKm, isNightActive, settings, fareSettings) ==
    LET cs   == currentSettingsOf(settings, fareSettings)
        base == IF JsLe(distanceKm, cs.baseDistance)
                THEN cs.baseFare
                ELSE JsAdd(cs.baseFare, JsMul(cs.ratePerKm, distanceKm))
        f    == IF isNightActive
                THEN JsMul(base, JsAdd(Whole(1), NIGHT_SURCHARGE))
                ELSE base
    IN  MathRound(f)

calculateFareInternal(distanceKm, isNightActive, settings, fareSettings) ==
    LET cs   == currentSettingsOf(settings, fareSettings)
        base == IF JsLe(distanceKm, cs.baseDistance)
                THEN cs.baseFare
                ELSE JsAdd(cs.baseFare,
                           JsMul(cs.ratePerKm, JsSub(distanceKm, cs.baseDistance)))
        f    == IF isNightActive
                THEN JsMul(base, JsAdd(Whole(1), NIGHT_SURCHARGE))
                ELSE base
    IN  MathRound(f)

(***************************************************************************)
(* Bounds of the state space and the inputs drawn.                         *)
(***************************************************************************)
\* Route distances and tariff fields are drawn in halves.
MaxDistanceHalfKm == 10

MaxTariffHalves == 2

\* Calls of one hook that may be awaiting the store at the same time.
MaxInFlight == 1

\* Calls of updateDistance from the manual-distance field that may be
\* awaiting the store at the same time: typing outruns the store.
MaxTypedInFlight == 2

\* The wall clock of a session starts at FirstHour and advances at most
\* MaxClockTicks hours.
FirstHour == 21

MaxClockTicks == 1

Hours == 0 .. 23

RouteDistances == {Fin(h, 2) : h \in 0 .. MaxDistanceHalfKm}

TariffValues == {Fin(h, 2) : h \in 1 .. MaxTariffHalves}

\* Tariffs a save accepts: the defaults, and every tariff of halves.
PositiveTariffs ==
    {DEFAULT_SETTINGS} \cup
    [baseFare : TariffValues, baseDistance : TariffValues, ratePerKm : TariffValues]

\* Texts typed into the fields of the settings screen.
SettingTexts ==
    { <<"0">>, <<"-", "1">>, <<"2", ".", "5">>, <<"1", "1">>, InfinityWord }

\* The texts typed into them during a meter session.
SessionSettingTexts == { <<"0">>, InfinityWord }

\* Texts typed into a place field: the empty text, one too short to be
\* searched, and three that are searched.
PlaceTexts ==
    { <<>>, <<"a", "b">>, <<"a", "b", "c">>, <<"a", "b", "c", "d">>,
      <<"a", "b", "d">> }

\* Texts typed into a field of the trip planner: the empty text, a blank
\* and a place; and the place typed while the tariff is edited.
TripTexts == { <<>>, <<" ">>, <<"M", "G">> }

RouteTexts == { <<"M", "G">> }

\* The text typed into a field of the settings screen for a new tariff.
NewTariffTexts == { <<"1", "1">> }

\* The routes looked up while the tariff is edited, and the minutes the
\* mapping service reports for a route of d km (20 km/h).
EditedRouteDistances == { Fin(5, 2), Whole(4) }

RouteDuration(d) == JsMul(d, Whole(3))

\* Texts typed into the manual-distance field of the meter.
DistanceTexts ==
    { <<>>, <<"-", "3">>, <<"2">>, InfinityWord }

\* Positions a fix or a sample may report: points of one meridian, named
\* by their distance in metres from the first.
Positions == {0, 5, 25, 1025, 5000000}

\* Samples are consumed while less than MaxTraveledMetres have been added.
MaxTraveledMetres == 30

\* The elapsed-time tick runs up to MaxElapsed seconds.
MaxElapsed == 1

\* Subscriptions the platform serves at one time.
MaxWatchers == 2

(***************************************************************************)
(* State.                                                                  *)
(***************************************************************************)
VARIABLES
    hour,               \* new Date().getHours()
    store,              \* AsyncStorage item 'fareSettings': <<>> or <<json>>
    tempSettings,       \* SettingsScreen: the edited settings
    distance,           \* useFareCalculator (meter): distance
    fare,               \* useFareCalculator (meter): fare
    isNight,            \* useFareCalculator (meter): isNight
    fareSettings,       \* useFareCalculator (meter): fareSettings
    pending,            \* updateDistance calls awaiting loadFareSettings
    isRunning,          \* MeterScreen
    showManualInput,    \* MeterScreen
    manualDistance,     \* MeterScreen: text of the manual-distance field
    alert,              \* MeterScreen: the alert on screen, "none" if none
    estimatedDistance,  \* TripPlannerScreen
    showResults,        \* TripPlannerScreen
    isNightForTrip,     \* TripPlannerScreen: isNightTime() at the last render
    estimatedFare,      \* TripPlannerScreen
    plannerCalls,       \* calculateFareForDistance calls awaiting the store
    lastPriced,         \* the call that resolved last and what its load read
    isWeb,              \* typeof window !== 'undefined' && 'geolocation' in navigator
    permission,         \* the platform's answer to a request for position access
    elapsedTime,        \* MeterScreen: seconds
    hasPermission,      \* MeterScreen
    distanceTraveled,   \* useLocationTracking: km
    isTracking,         \* useLocationTracking
    lastLocationRef,    \* useLocationTracking: <<>> (null) or <<position>>
    watcherRef,         \* useLocationTracking: <<>> (null) or <<"subscription">>
    watchers,           \* position subscriptions the platform is serving
    startPc,            \* where the start in flight (its startTracking call) is awaiting
    lastCommand,        \* history: the command handled last (start, manualMode, stop, reset, resetTracking)
    tickIntervals,      \* MeterScreen: one-second intervals the isRunning effect holds
    screenFareSettings, \* MeterScreen: its own fareSettings state (the rate line)
    plannerFareSettings, \* TripPlannerScreen: its own fareSettings state
    estimatedTime,      \* TripPlannerScreen: minutes
    pollCalls,          \* TripPlannerScreen: interval callbacks awaiting getItem
    placeValue,         \* PlaceAutocomplete: value, the text of the field
    delayedSearch,      \* PlaceAutocomplete: <<>> or <<text the timeout will search>>
    lookups,            \* useGooglePlaces: queries awaiting their predictions
    suggestions,        \* useGooglePlaces: <<>> ([]) or <<query the list answers>>
    isGoogleMapsLoaded, \* useGooglePlaces
    lastSample,         \* history: the position the fix or the watcher delivered last
    currentLocation,    \* useLocationTracking: <<>> (null) or <<position>>
    settingsState,      \* SettingsScreen: settings, the saved settings
    hasChanges,         \* SettingsScreen
    source,             \* TripPlannerScreen: text of the pickup field
    destination,        \* TripPlannerScreen: text of the destination field
    isLoading,          \* TripPlannerScreen
    estimatePc          \* where the handleEstimateTrip call in flight is awaiting

vars ==
    <<hour, store, tempSettings, distance, fare, isNight, fareSettings,
      pending, isRunning, showManualInput, manualDistance, alert,
      estimatedDistance, showResults, isNightForTrip, estimatedFare,
      plannerCalls, lastPriced, isWeb, permission, elapsedTime, hasPermission,
      distanceTraveled, isTracking, lastLocationRef, watcherRef, watchers,
      startPc, lastCommand, tickIntervals, screenFareSettings,
      plannerFareSettings, estimatedTime, pollCalls, placeValue, delayedSearch,
      lookups, suggestions, isGoogleMapsLoaded, lastSample,
      currentLocation, settingsState, hasChanges, source, destination,
      isLoading, estimatePc>>

clockVars == <<hour>>

settingsVars == <<tempSettings, settingsState, hasChanges>>

hookVars == <<distance, fare, isNight, fareSettings>>

meterVars == <<isRunning, tickIntervals, showManualInput, manualDistance, alert>>

rateInfoVars == <<screenFareSettings>>

estimateVars == <<source, destination, isLoading, estimatePc>>

plannerVars ==
    <<estimatedDistance, showResults, isNightForTrip, estimatedFare,
      plannerCalls, lastPriced, plannerFareSettings, estimatedTime, pollCalls,
      source, destination, isLoading, estimatePc>>

placesVars == <<placeValue, delayedSearch, lookups, suggestions, isGoogleMapsLoaded>>

envVars == <<isWeb, permission>>

trackingVars ==
    <<distanceTraveled, isTracking, lastLocationRef, lastSample, currentLocation,
      watcherRef,
      watchers, startPc>>

locationVars == <<envVars, trackingVars, elapsedTime, hasPermission, lastCommand>>

(***************************************************************************)
(* Settings screen.                                                        *)
(***************************************************************************)
\* The effect on [tempSettings, settings]: setHasChanges of whether a field
\* of the edited settings !== that of the saved settings.
hasChangesEffect(temp, saved) ==
    \/ JsStrictNe(temp.baseFare, saved.baseFare)
    \/ JsStrictNe(temp.baseDistance, saved.baseDistance)
    \/ JsStrictNe(temp.ratePerKm, saved.ratePerKm)

updateBaseFare(value) ==
    /\ tempSettings' =
           [tempSettings EXCEPT !.baseFare = OrZero(parseFloat(value))]
    /\ settingsState' = settingsState
    /\ hasChanges' = hasChangesEffect(tempSettings', settingsState')
    /\ UNCHANGED <<clockVars, rateInfoVars, placesVars, store, hookVars, pending, meterVars, plannerVars, locationVars>>

updateBaseDistance(value) ==
    /\ tempSettings' =
           [tempSettings EXCEPT !.baseDistance = OrZero(parseFloat(value))]
    /\ settingsState' = settingsState
    /\ hasChanges' = hasChangesEffect(tempSettings', settingsState')
    /\ UNCHANGED <<clockVars, rateInfoVars, placesVars, store, hookVars, pending, meterVars, plannerVars, locationVars>>

updateRatePerKm(value) ==
    /\ tempSettings' =
           [tempSettings EXCEPT !.ratePerKm = OrZero(parseFloat(value))]
    /\ settingsState' = settingsState
    /\ hasChanges' = hasChangesEffect(tempSettings', settingsState')
    /\ UNCHANGED <<clockVars, rateInfoVars, placesVars, store, hookVars, pending, meterVars, plannerVars, locationVars>>

\* The validation of saveSettings: TRUE when the save is refused.
saveRejects_ZeroAllowed(t) ==
    \/ JsLe(t.baseFare, Whole(-1))
    \/ JsLe(t.baseDistance, Whole(0))
    \/ JsLe(t.ratePerKm, Whole(0))
    \/ JsGt(t.baseDistance, Whole(10))

saveRejects(t) ==
    \/ JsLe(t.baseFare, Whole(0))
    \/ JsLe(t.baseDistance, Whole(0))
    \/ JsLe(t.ratePerKm, Whole(0))
    \/ JsGt(t.baseDistance, Whole(10))

\* saveSettings: a refused save returns after its alert; setItem may
\* reject, which the catch reports and drops; after the write
\* setSettings(tempSettings) and setHasChanges(false), and the effect on
\* [tempSettings, settings] of the render that follows.
saveSettings ==
    /\ IF saveRejects(tempSettings)
       THEN UNCHANGED <<store, settingsVars>>
       ELSE \E ok \in BOOLEAN :
                IF ok
                THEN /\ store' = <<JSONstringify(tempSettings)>>
                     /\ settingsState' = tempSettings
                     /\ tempSettings' = tempSettings
                     /\ hasChanges' = hasChangesEffect(tempSettings', settingsState')
                ELSE UNCHANGED <<store, settingsVars>>
    /\ UNCHANGED <<clockVars, rateInfoVars, placesVars, hookVars, pending, meterVars,
                   plannerVars, locationVars>>

\* resetToDefaults, confirmed: performReset.
performReset ==
    /\ \E ok \in BOOLEAN :
           IF ok
           THEN /\ store' = <<JSONstringify(DEFAULT_SETTINGS)>>
                /\ settingsState' = DEFAULT_SETTINGS
                /\ tempSettings' = DEFAULT_SETTINGS
                /\ hasChanges' = hasChangesEffect(tempSettings', settingsState')
           ELSE UNCHANGED <<store, settingsVars>>
    /\ UNCHANGED <<clockVars, rateInfoVars, placesVars, hookVars, pending, meterVars, plannerVars, locationVars>>

(***************************************************************************)
(* The wall clock.                                                         *)
(***************************************************************************)
ClockAdvance ==
    /\ (hour - FirstHour) % 24 < MaxClockTicks
    /\ hour' = (hour + 1) % 24
    /\ UNCHANGED <<store, settingsVars, hookVars, pending, meterVars,
                   plannerVars, locationVars, rateInfoVars, placesVars>>

(***************************************************************************)
(* useFareCalculator, as the meter screen uses it.                         *)
(***************************************************************************)
\* updateDistance(newDistance): the call starts loadFareSettings() and
\* returns; the state is set when the load resolves.
updateDistance(newDistance) == Append(pending, newDistance)

\* The calls awaiting, less the i-th.
Settled(calls, i) == SubSeq(calls, 1, i - 1) \o SubSeq(calls, i + 1, Len(calls))

\* The then-callback of updateDistance for a call awaiting. Each call
\* awaits a getItem of its own and nothing in the hook orders the reads:
\* any of the calls awaiting may be the next to resolve.
updateDistance_Then ==
    /\ \E i \in 1 .. Len(pending), ok \in BOOLEAN :
           LET settings       == loadFareSettings(store, ok)
               newDistance    == pending[i]
               currentIsNight == isNightTime(hour)
           IN  /\ fareSettings' = settings
               /\ isNight' = currentIsNight
               /\ distance' = newDistance
               /\ fare' = calculateFareInternal(newDistance, currentIsNight,
                                                <<settings>>, fareSettings)
               /\ pending' = Settled(pending, i)
    /\ UNCHANGED <<clockVars, rateInfoVars, placesVars, store, settingsVars, meterVars, plannerVars, locationVars>>

(***************************************************************************)
(* useLocationTracking.                                                    *)
(***************************************************************************)
\* The effect of the meter screen on [isRunning], run by the render after
\* setIsRunning(running): when the value changed the cleanup of the last
\* run clears the interval that run installed (none when it ran with
\* isRunning false), then an interval is installed if running.
isRunningEffect_NoCleanup(running) ==
    IF running = isRunning THEN tickIntervals
    ELSE tickIntervals + (IF running THEN 1 ELSE 0)

isRunningEffect(running) ==
    IF running = isRunning THEN tickIntervals
    ELSE (tickIntervals - (IF isRunning THEN 1 ELSE 0)) + (IF running THEN 1 ELSE 0)

\* calculateDistance between two points of one meridian, in km: the
\* haversine arc R * c with c the difference of the latitudes.
calculateDistance(lat1, lat2) == Fin(Abs(lat2 - lat1), 1000)

\* The deltas a watcher callback adds: distance > floor && distance < 1,
\* with the floor 0.001 km in the browser and 0.01 km under Expo Location.
isSignificant_NoCeiling(web, delta) ==
    JsGt(delta, IF web THEN Fin(1, 1000) ELSE Fin(1, 100))

isSignificant_Inclusive(web, delta) ==
    /\ JsLe(IF web THEN Fin(1, 1000) ELSE Fin(1, 100), delta)
    /\ JsLe(delta, Whole(1))

isSignificant(web, delta) ==
    /\ JsGt(delta, IF web THEN Fin(1, 1000) ELSE Fin(1, 100))
    /\ JsGt(Whole(1), delta)

\* The effect of MeterScreen on [distanceTraveled]: after a render with a
\* new value that is > 0, updateDistance is called with it.
distanceTraveledEffect(newTotal) ==
    IF newTotal # distanceTraveled /\ JsGt(newTotal, Whole(0))
    THEN updateDistance(newTotal)
    ELSE pending

\* lastLocationRef.current after a sample: the sample, whether its delta
\* was added or not.
lastLocationAfter_OnlyAccepted(location, accepted) ==
    IF accepted THEN <<location>> ELSE lastLocationRef

lastLocationAfter(location, accepted) == <<location>>

\* The callback of the position watcher, with a new sample.
watchPosition_Callback(location) ==
    /\ watchers > 0
    /\ Len(pending) < MaxInFlight
    /\ JsGt(Fin(MaxTraveledMetres, 1000), distanceTraveled)
    /\ LET delta    == IF lastLocationRef # <<>>
                       THEN calculateDistance(lastLocationRef[1], location)
                       ELSE Whole(0)
           accepted == lastLocationRef # <<>> /\ isSignificant(isWeb, delta)
           newTotal == IF accepted
                       THEN JsAdd(distanceTraveled, delta)
                       ELSE distanceTraveled
       IN  /\ distanceTraveled' = newTotal
           /\ pending' = distanceTraveledEffect(newTotal)
           /\ lastLocationRef' = lastLocationAfter(location, accepted)
    /\ lastSample' = <<location>>
    /\ currentLocation' = <<location>>
    /\ UNCHANGED <<clockVars, rateInfoVars, placesVars, store, settingsVars, hookVars, meterVars,
                   plannerVars, envVars, isTracking, watcherRef, watchers,
                   startPc, elapsedTime, hasPermission, lastCommand>>

\* The error callback of the browser's watcher.
watchPosition_Error_EndsSession ==
    /\ isWeb
    /\ watchers > 0
    /\ isTracking' = FALSE
    /\ isRunning' = FALSE
    /\ tickIntervals' = isRunningEffect(FALSE)
    /\ UNCHANGED <<clockVars, rateInfoVars, placesVars, store, settingsVars,
                   hookVars, pending, showManualInput, manualDistance, alert,
                   plannerVars, envVars, distanceTraveled, lastLocationRef, lastSample, currentLocation,
                   watcherRef, watchers, startPc, elapsedTime, hasPermission,
                   lastCommand>>

watchPosition_Error ==
    /\ isWeb
    /\ watchers > 0
    /\ isTracking' = FALSE
    /\ UNCHANGED <<clockVars, rateInfoVars, placesVars, store, settingsVars, hookVars, pending,
                   meterVars, plannerVars, envVars, distanceTraveled,
                   lastLocationRef, lastSample, currentLocation, watcherRef, watchers, startPc,
                   elapsedTime, hasPermission, lastCommand>>

\* stopTracking: the subscription held is removed, if one is held.
stopTracking_ResetsTracking ==
    /\ watchers' = IF watcherRef # <<>> THEN watchers - 1 ELSE watchers
    /\ watcherRef' = <<>>
    /\ isTracking' = FALSE
    /\ distanceTraveled' = Whole(0)
    /\ lastLocationRef' = <<>>
    /\ UNCHANGED <<lastSample, currentLocation>>

stopTracking_KeepsWatcher ==
    /\ isTracking' = FALSE
    /\ UNCHANGED <<watchers, watcherRef, distanceTraveled, lastLocationRef, lastSample, currentLocation>>

stopTracking ==
    /\ watchers' = IF watcherRef # <<>> THEN watchers - 1 ELSE watchers
    /\ watcherRef' = <<>>
    /\ isTracking' = FALSE
    /\ UNCHANGED <<distanceTraveled, lastLocationRef, lastSample, currentLocation>>

\* resetTracking, as a consumer of the hook calls it; the subscription
\* held, if any, stays. The effect of the meter screen on
\* [distanceTraveled] runs with the total 0.
resetTracking_KeepsLastSample ==
    /\ distanceTraveled' = Whole(0)
    /\ pending' = distanceTraveledEffect(Whole(0))
    /\ currentLocation' = <<>>
    /\ lastLocationRef' = lastLocationRef
    /\ lastCommand' = "resetTracking"
    /\ UNCHANGED <<clockVars, rateInfoVars, placesVars, store, settingsVars,
                   hookVars, meterVars, plannerVars, envVars, isTracking,
                   lastSample, watcherRef, watchers, startPc, elapsedTime,
                   hasPermission>>

resetTracking ==
    /\ distanceTraveled' = Whole(0)
    /\ pending' = distanceTraveledEffect(Whole(0))
    /\ currentLocation' = <<>>
    /\ lastLocationRef' = <<>>
    /\ lastCommand' = "resetTracking"
    /\ UNCHANGED <<clockVars, rateInfoVars, placesVars, store, settingsVars,
                   hookVars, meterVars, plannerVars, envVars, isTracking,
                   lastSample, watcherRef, watchers, startPc, elapsedTime,
                   hasPermission>>

(***************************************************************************)
(* Meter screen (the screen with the mode chooser).                        *)
(***************************************************************************)
\* handleStartMeter in a standalone (PWA) window: the mode chooser opens.
handleStartMeter ==
    /\ ~isRunning
    /\ alert' = "chooseMode"
    /\ UNCHANGED <<clockVars, rateInfoVars, placesVars, store, settingsVars, hookVars, pending,
                   isRunning, tickIntervals, showManualInput, manualDistance, plannerVars, locationVars>>

\* The 'Manual Distance' button of the mode chooser.
chooseManualDistance ==
    /\ alert = "chooseMode"
    /\ showManualInput' = TRUE
    /\ isRunning' = TRUE
    /\ tickIntervals' = isRunningEffect(TRUE)
    /\ alert' = "none"
    /\ lastCommand' = "start"
    /\ UNCHANGED <<clockVars, rateInfoVars, placesVars, store, settingsVars, hookVars, pending,
                   manualDistance, plannerVars, envVars, trackingVars,
                   elapsedTime, hasPermission>>

\* The 'Cancel' button of the mode chooser.
chooseCancel ==
    /\ alert = "chooseMode"
    /\ alert' = "none"
    /\ UNCHANGED <<clockVars, rateInfoVars, placesVars, store, settingsVars, hookVars, pending,
                   isRunning, tickIntervals, showManualInput, manualDistance, plannerVars, locationVars>>

handleStopMeter ==
    /\ isRunning
    /\ isRunning' = FALSE
    /\ tickIntervals' = isRunningEffect(FALSE)
    /\ stopTracking
    /\ showManualInput' = FALSE
    /\ lastCommand' = "stop"
    /\ UNCHANGED <<clockVars, rateInfoVars, placesVars, store, settingsVars, hookVars, pending,
                   manualDistance, alert, plannerVars, envVars, startPc,
                   elapsedTime, hasPermission>>

\* resetMeter of useFareCalculator.
resetMeter_KeepsNight ==
    /\ distance' = Whole(0)
    /\ fare' = Whole(0)
    /\ UNCHANGED <<isNight, fareSettings>>

resetMeter ==
    /\ distance' = Whole(0)
    /\ fare' = Whole(0)
    /\ isNight' = FALSE
    /\ UNCHANGED fareSettings

\* handleResetMeter.
handleResetMeter_KeepsElapsed ==
    /\ isRunning' = FALSE
    /\ tickIntervals' = isRunningEffect(FALSE)
    /\ elapsedTime' = IF isRunning THEN elapsedTime ELSE 0
    /\ resetMeter
    /\ stopTracking
    /\ showManualInput' = FALSE
    /\ manualDistance' = <<>>
    /\ lastCommand' = "reset"
    /\ UNCHANGED <<clockVars, rateInfoVars, placesVars, store, settingsVars, pending, alert,
                   plannerVars, envVars, startPc, hasPermission>>

handleResetMeter ==
    /\ isRunning' = FALSE
    /\ tickIntervals' = isRunningEffect(FALSE)
    /\ elapsedTime' = 0
    /\ resetMeter
    /\ stopTracking
    /\ showManualInput' = FALSE
    /\ manualDistance' = <<>>
    /\ lastCommand' = "reset"
    /\ UNCHANGED <<clockVars, rateInfoVars, placesVars, store, settingsVars, pending, alert,
                   plannerVars, envVars, startPc, hasPermission>>

\* The number handleManualDistanceChange passes on: parseFloat(value) || 0.
manualNumValue_Clamped(value) ==
    LET n == OrZero(parseFloat(value))
    IN  IF JsLe(n, Whole(0)) THEN Whole(0) ELSE n

manualNumValue_NoFallback(value) == parseFloat(value)

manualNumValue(value) == OrZero(parseFloat(value))

handleManualDistanceChange(value) ==
    /\ showManualInput
    /\ Len(pending) < MaxTypedInFlight
    /\ manualDistance' = value
    /\ pending' = updateDistance(manualNumValue(value))
    /\ UNCHANGED <<clockVars, rateInfoVars, placesVars, store, settingsVars, hookVars, isRunning,
                   tickIntervals, showManualInput, alert, plannerVars,
                   locationVars>>

\* The 'Try Location' button of the mode chooser: attemptLocationAccess is
\* called and awaits navigator.permissions.query.
chooseTryLocation ==
    /\ alert = "chooseMode"
    /\ startPc = "idle"
    /\ watchers < MaxWatchers
    /\ alert' = "none"
    /\ startPc' = "permissionsQuery"
    /\ UNCHANGED <<clockVars, rateInfoVars, placesVars, store, settingsVars,
                   hookVars, pending, isRunning, tickIntervals,
                   showManualInput, manualDistance, plannerVars, envVars,
                   distanceTraveled, isTracking, lastLocationRef, lastSample,
                   currentLocation, watcherRef, watchers, elapsedTime,
                   hasPermission, lastCommand>>

\* The permission query answers: 'denied' opens the alert 'Location Access
\* Blocked'; any other state, or a query that throws, goes on to
\* getCurrentPosition.
attemptLocationAccess_Query ==
    /\ startPc = "permissionsQuery"
    /\ \E state \in {"denied", "prompt", "granted", "queryFailed"} :
           /\ state = "denied" => permission = "denied"
           /\ state = "granted" => permission = "granted"
           /\ IF state = "denied"
              THEN alert' = "locationBlocked" /\ startPc' = "idle"
              ELSE alert' = alert /\ startPc' = "attemptPosition"
    /\ UNCHANGED <<clockVars, rateInfoVars, placesVars, store, settingsVars,
                   hookVars, pending, isRunning, tickIntervals,
                   showManualInput, manualDistance, plannerVars, envVars,
                   distanceTraveled, isTracking, lastLocationRef, lastSample,
                   currentLocation, watcherRef, watchers, elapsedTime,
                   hasPermission, lastCommand>>

\* The success callback of getCurrentPosition in attemptLocationAccess:
\* the session runs and startTracking is called, not awaited.
attemptLocationAccess_Position ==
    /\ startPc = "attemptPosition"
    /\ permission = "granted"
    /\ hasPermission' = TRUE
    /\ isRunning' = TRUE
    /\ tickIntervals' = isRunningEffect(TRUE)
    /\ startPc' = "getCurrentPosition"
    /\ lastCommand' = "start"
    /\ UNCHANGED <<clockVars, rateInfoVars, placesVars, store, settingsVars,
                   hookVars, pending, showManualInput, manualDistance, alert,
                   plannerVars, envVars, distanceTraveled, isTracking,
                   lastLocationRef, lastSample, currentLocation, watcherRef,
                   watchers, elapsedTime>>

\* Its error callback: the alert 'Location Unavailable'.
attemptLocationAccess_PositionError ==
    /\ startPc = "attemptPosition"
    /\ alert' = "locationUnavailable"
    /\ startPc' = "idle"
    /\ UNCHANGED <<clockVars, rateInfoVars, placesVars, store, settingsVars,
                   hookVars, pending, isRunning, tickIntervals,
                   showManualInput, manualDistance, plannerVars, envVars,
                   distanceTraveled, isTracking, lastLocationRef, lastSample,
                   currentLocation, watcherRef, watchers, elapsedTime,
                   hasPermission, lastCommand>>

\* startTracking, called without await from the success callback, fails to
\* get its first fix: its catch sets isTracking and rethrows to no one.
attemptLocationAccess_TrackingError ==
    /\ startPc = "getCurrentPosition"
    /\ isTracking' = FALSE
    /\ startPc' = "idle"
    /\ UNCHANGED <<clockVars, rateInfoVars, placesVars, store, settingsVars,
                   hookVars, pending, meterVars, plannerVars, envVars,
                   distanceTraveled, lastLocationRef, lastSample,
                   currentLocation, watcherRef, watchers, elapsedTime,
                   hasPermission, lastCommand>>

\* The 'Manual Mode' button of the alerts 'Location Access Blocked' and
\* 'Location Unavailable', whenever it is pressed.
chooseManualMode_InputOnly ==
    /\ alert \in {"locationBlocked", "locationUnavailable"}
    /\ showManualInput' = TRUE
    /\ alert' = "none"
    /\ lastCommand' = "manualMode"
    /\ UNCHANGED <<clockVars, rateInfoVars, placesVars, store, settingsVars,
                   hookVars, pending, isRunning, tickIntervals,
                   manualDistance, plannerVars, envVars, trackingVars,
                   elapsedTime, hasPermission>>

chooseManualMode ==
    /\ alert \in {"locationBlocked", "locationUnavailable"}
    /\ showManualInput' = TRUE
    /\ isRunning' = TRUE
    /\ tickIntervals' = isRunningEffect(TRUE)
    /\ alert' = "none"
    /\ lastCommand' = "manualMode"
    /\ UNCHANGED <<clockVars, rateInfoVars, placesVars, store, settingsVars,
                   hookVars, pending, manualDistance, plannerVars, envVars,
                   trackingVars, elapsedTime, hasPermission>>

\* Their 'Cancel' button.
chooseManualModeCancel ==
    /\ alert \in {"locationBlocked", "locationUnavailable"}
    /\ alert' = "none"
    /\ UNCHANGED <<clockVars, rateInfoVars, placesVars, store, settingsVars,
                   hookVars, pending, isRunning, tickIntervals,
                   showManualInput, manualDistance, plannerVars,
                   locationVars>>

(***************************************************************************)
(* Meter screen (meter.tsx), with useLocationTracking. One startTracking   *)
(* call is followed at a time: startPc is where it is awaiting.            *)
(***************************************************************************)
\* handleStartMeter up to its first await: setIsRunning(true), then the
\* browser's permission probe; where there is no navigator.geolocation the
\* probe is skipped, the alert is shown and startTracking is called.
MeterScreen_handleStartMeter ==
    /\ ~isRunning
    /\ startPc = "idle"
    /\ watchers < MaxWatchers
    /\ isRunning' = TRUE
    /\ tickIntervals' = isRunningEffect(TRUE)
    /\ lastCommand' = "start"
    /\ IF isWeb
       THEN startPc' = "probe" /\ UNCHANGED alert
       ELSE startPc' = "requestPermission" /\ alert' = "permissionRequired"
    /\ UNCHANGED <<clockVars, rateInfoVars, placesVars, store, settingsVars, hookVars, pending,
                   showManualInput, manualDistance, plannerVars, envVars,
                   distanceTraveled, isTracking, lastLocationRef, lastSample, currentLocation, watcherRef,
                   watchers, elapsedTime, hasPermission>>

\* The probe answers: the alert if it failed; then startTracking is called
\* and awaits the initial position of the browser.
handleStartMeter_Probe ==
    /\ startPc = "probe"
    /\ \E permissionGranted \in BOOLEAN :
           /\ permissionGranted => permission = "granted"
           /\ alert' = IF permissionGranted THEN alert ELSE "permissionRequired"
    /\ startPc' = "getCurrentPosition"
    /\ UNCHANGED <<clockVars, rateInfoVars, placesVars, store, settingsVars, hookVars, pending,
                   isRunning, tickIntervals, showManualInput, manualDistance, plannerVars,
                   envVars, distanceTraveled, isTracking, lastLocationRef, lastSample, currentLocation,
                   watcherRef, watchers, elapsedTime, hasPermission,
                   lastCommand>>

\* The alert of handleStartMeter is dismissed.
alertDismiss ==
    /\ alert = "permissionRequired"
    /\ alert' = "none"
    /\ UNCHANGED <<clockVars, rateInfoVars, placesVars, store, settingsVars, hookVars, pending,
                   isRunning, tickIntervals, showManualInput, manualDistance, plannerVars,
                   locationVars>>

\* The catch of startTracking, rethrowing into the catch of handleStartMeter.
startTracking_Catch ==
    /\ isTracking' = FALSE
    /\ hasPermission' = FALSE
    /\ startPc' = "idle"
    /\ UNCHANGED <<distanceTraveled, lastLocationRef, lastSample, currentLocation, watcherRef, watchers>>

\* startTracking under Expo Location: requestForegroundPermissionsAsync
\* resolves.
startTracking_Permission ==
    /\ startPc = "requestPermission"
    /\ IF permission = "granted"
       THEN /\ startPc' = "getCurrentPosition"
            /\ UNCHANGED <<distanceTraveled, isTracking, lastLocationRef, lastSample, currentLocation,
                           watcherRef, watchers, hasPermission>>
       ELSE startTracking_Catch
    /\ UNCHANGED <<clockVars, rateInfoVars, placesVars, store, settingsVars, hookVars, pending,
                   meterVars, plannerVars, envVars, elapsedTime, lastCommand>>

\* The initial position arrives: the state is set; the browser's watcher
\* is installed at once, Expo's is awaited.
startTracking_Position(initialLocation) ==
    /\ startPc = "getCurrentPosition"
    /\ permission = "granted"
    /\ lastLocationRef' = <<initialLocation>>
    /\ lastSample' = <<initialLocation>>
    /\ currentLocation' = <<initialLocation>>
    /\ isTracking' = TRUE
    /\ distanceTraveled' = Whole(0)
    /\ pending' = distanceTraveledEffect(Whole(0))
    /\ IF isWeb
       THEN /\ watchers' = watchers + 1
            /\ watcherRef' = <<"subscription">>
            /\ hasPermission' = TRUE
            /\ startPc' = "idle"
       ELSE /\ startPc' = "watchPositionAsync"
            /\ UNCHANGED <<watchers, watcherRef, hasPermission>>
    /\ UNCHANGED <<clockVars, rateInfoVars, placesVars, store, settingsVars, hookVars, meterVars,
                   plannerVars, envVars, elapsedTime, lastCommand>>

\* The initial position is refused or times out.
startTracking_PositionError ==
    /\ startPc = "getCurrentPosition"
    /\ startTracking_Catch
    /\ UNCHANGED <<clockVars, rateInfoVars, placesVars, store, settingsVars, hookVars, pending,
                   meterVars, plannerVars, envVars, elapsedTime, lastCommand>>

\* watchPositionAsync resolves with the subscription, or rejects.
startTracking_Watcher ==
    /\ startPc = "watchPositionAsync"
    /\ \E ok \in BOOLEAN :
           IF ok
           THEN /\ watchers' = watchers + 1
                /\ watcherRef' = <<"subscription">>
                /\ hasPermission' = TRUE
                /\ startPc' = "idle"
                /\ UNCHANGED <<distanceTraveled, isTracking, lastLocationRef, lastSample, currentLocation>>
           ELSE startTracking_Catch
    /\ UNCHANGED <<clockVars, rateInfoVars, placesVars, store, settingsVars, hookVars, pending,
                   meterVars, plannerVars, envVars, elapsedTime, lastCommand>>

\* A one-second interval of the isRunning effect fires:
\* setElapsedTime(prev => prev + 1).
elapsedTimeTick ==
    /\ tickIntervals > 0
    /\ elapsedTime < MaxElapsed
    /\ elapsedTime' = elapsedTime + 1
    /\ UNCHANGED <<clockVars, rateInfoVars, placesVars, store, settingsVars, hookVars, pending,
                   meterVars, plannerVars, envVars, trackingVars,
                   hasPermission, lastCommand>>

\* loadFareSettings of the meter screen, called at the mount and by the
\* one-second interval: getItem resolves and the record, if there is one,
\* becomes the screen's fareSettings; a rejected read is caught and logged.
MeterScreen_loadFareSettings ==
    /\ \E ok \in BOOLEAN :
           screenFareSettings' =
               IF ok /\ store # <<>> THEN JSONparse(store[1])
               ELSE screenFareSettings
    /\ UNCHANGED <<clockVars, placesVars, store, settingsVars, hookVars,
                   pending, meterVars, plannerVars, locationVars>>

(***************************************************************************)
(* Place autocomplete: one PlaceAutocomplete field, focused, with its      *)
(* useGooglePlaces.                                                        *)
(***************************************************************************)
\* The script of the Maps API has loaded.
script_onload ==
    /\ ~isGoogleMapsLoaded
    /\ isGoogleMapsLoaded' = TRUE
    /\ UNCHANGED <<clockVars, rateInfoVars, store, settingsVars, hookVars,
                   pending, meterVars, plannerVars, locationVars, placeValue,
                   delayedSearch, lookups, suggestions>>

\* handleTextChange, and the effect on [value] of the render it causes:
\* the timeout of the last run is cleared and one is set for the new
\* text, closing over the searchPlaces of that render.
handleTextChange_KeepsTimeout(text) ==
    /\ text # placeValue
    /\ placeValue' = text
    /\ delayedSearch' = IF delayedSearch # <<>>
                        THEN delayedSearch
                        ELSE <<[value |-> text,
                                isGoogleMapsLoaded |-> isGoogleMapsLoaded]>>
    /\ UNCHANGED <<clockVars, rateInfoVars, store, settingsVars, hookVars,
                   pending, meterVars, plannerVars, locationVars, lookups,
                   suggestions, isGoogleMapsLoaded>>

handleTextChange(text) ==
    /\ text # placeValue
    /\ placeValue' = text
    /\ delayedSearch' = <<[value |-> text,
                           isGoogleMapsLoaded |-> isGoogleMapsLoaded]>>
    /\ UNCHANGED <<clockVars, rateInfoVars, store, settingsVars, hookVars,
                   pending, meterVars, plannerVars, locationVars, lookups,
                   suggestions, isGoogleMapsLoaded>>

\* searchPlaces(query) up to the call of getPlacePredictions.
searchPlaces(query, loaded) ==
    IF Len(query) = 0 \/ ~loaded
    THEN suggestions' = <<>> /\ UNCHANGED lookups
    ELSE lookups' = lookups \cup {query} /\ UNCHANGED suggestions

clearSuggestions ==
    /\ suggestions' = <<>>
    /\ UNCHANGED lookups

\* The timeout fires, 300 ms after the last change of the text.
delayedSearch_Timeout ==
    /\ delayedSearch # <<>>
    /\ IF Len(delayedSearch[1].value) > 2
       THEN searchPlaces(delayedSearch[1].value,
                         delayedSearch[1].isGoogleMapsLoaded)
       ELSE clearSuggestions
    /\ delayedSearch' = <<>>
    /\ UNCHANGED <<clockVars, rateInfoVars, store, settingsVars, hookVars,
                   pending, meterVars, plannerVars, locationVars, placeValue,
                   isGoogleMapsLoaded>>

\* The callback of getPlacePredictions for a query awaiting, with the
\* predictions (status OK) or without.
getPlacePredictions_Callback(query, statusOK) ==
    /\ query \in lookups
    /\ suggestions' = IF statusOK THEN <<query>> ELSE <<>>
    /\ lookups' = lookups \ {query}
    /\ UNCHANGED <<clockVars, rateInfoVars, store, settingsVars, hookVars,
                   pending, meterVars, plannerVars, locationVars, placeValue,
                   delayedSearch, isGoogleMapsLoaded>>

\* calculateExampleFare(distance) of the settings screen: the preview of
\* the fare under the edited settings.
calculateExampleFare_Unrounded(exampleDistance) ==
    IF JsLe(exampleDistance, tempSettings.baseDistance)
    THEN tempSettings.baseFare
    ELSE JsAdd(tempSettings.baseFare,
               JsMul(tempSettings.ratePerKm,
                     JsSub(exampleDistance, tempSettings.baseDistance)))

calculateExampleFare(exampleDistance) ==
    LET fareValue == IF JsLe(exampleDistance, tempSettings.baseDistance)
                     THEN tempSettings.baseFare
                     ELSE JsAdd(tempSettings.baseFare,
                                JsMul(tempSettings.ratePerKm,
                                      JsSub(exampleDistance,
                                            tempSettings.baseDistance)))
    IN  MathRound(fareValue)

\* The distances previewed: those of the screen (2, 5 and 10 km) among
\* the route distances and 10 km.
ExampleDistances == RouteDistances \cup { Whole(10) }

(***************************************************************************)
(* Trip planner.                                                           *)
(***************************************************************************)
\* The fareSettings state of the planner's own useFareCalculator: its
\* initial value; calculateFareForDistance always passes the settings read.
plannerHookSettings == DEFAULT_SETTINGS

\* The render after a state change: isNightForTrip is isNightTime() now,
\* and the updateFare effect runs when estimatedDistance or isNightForTrip
\* changed, starting a calculateFareForDistance call.
plannerRender(newDistance) ==
    LET night == isNightTime(hour)
    IN  /\ isNightForTrip' = night
        /\ plannerCalls' =
               IF newDistance # estimatedDistance \/ night # isNightForTrip
               THEN Append(plannerCalls,
                           [distanceKm |-> newDistance, isNightActive |-> night])
               ELSE plannerCalls

\* loadFareSettings of the trip planner: setFareSettings(JSON.parse(item))
\* when the store holds a record; a rejected read is caught and logged.
TripPlannerScreen_loadFareSettings(item, ok, current) ==
    IF ok /\ item # <<>> THEN JSONparse(item[1]) ELSE current

\* text.trim(): the text without its leading and trailing blanks.
RECURSIVE trimEnd(_)
trimEnd(s) ==
    IF s # <<>> /\ s[Len(s)] = " " THEN trimEnd(SubSeq(s, 1, Len(s) - 1)) ELSE s

trim(s) == trimEnd(From(s, Span(s, {" "}) + 1))

\* The guard of handleEstimateTrip: !source.trim() || !destination.trim()
\* is false.
FieldsFilled == trim(source) # <<>> /\ trim(destination) # <<>>

\* onChangeText of the pickup field: setSource(text), and the render.
setSource(text) ==
    /\ text # source
    /\ Len(plannerCalls) < MaxInFlight
    /\ source' = text
    /\ plannerRender(estimatedDistance)
    /\ UNCHANGED <<clockVars, rateInfoVars, placesVars, store, settingsVars,
                   hookVars, pending, meterVars, estimatedDistance,
                   estimatedTime, showResults, estimatedFare, lastPriced,
                   plannerFareSettings, pollCalls, destination, isLoading,
                   estimatePc, locationVars>>

\* onChangeText of the destination field: setDestination(text).
setDestination(text) ==
    /\ text # destination
    /\ Len(plannerCalls) < MaxInFlight
    /\ destination' = text
    /\ plannerRender(estimatedDistance)
    /\ UNCHANGED <<clockVars, rateInfoVars, placesVars, store, settingsVars,
                   hookVars, pending, meterVars, estimatedDistance,
                   estimatedTime, showResults, estimatedFare, lastPriced,
                   plannerFareSettings, pollCalls, source, isLoading,
                   estimatePc, locationVars>>

\* handleEstimateTrip pressed with a field that trims to nothing: the
\* alert 'Missing Information' and the return. The button is disabled
\* while isLoading.
handleEstimateTrip_Missing ==
    /\ ~isLoading
    /\ ~FieldsFilled
    /\ alert' = "missingInformation"
    /\ UNCHANGED <<clockVars, rateInfoVars, placesVars, store, settingsVars,
                   hookVars, pending, isRunning, tickIntervals,
                   showManualInput, manualDistance, plannerVars, locationVars>>

\* handleEstimateTrip pressed with both fields filled, up to its first
\* await: setIsLoading(true) and the call of loadFareSettings.
handleEstimateTrip_Press ==
    /\ ~isLoading
    /\ FieldsFilled
    /\ Len(plannerCalls) < MaxInFlight
    /\ isLoading' = TRUE
    /\ estimatePc' = "loadFareSettings"
    /\ plannerRender(estimatedDistance)
    /\ UNCHANGED <<clockVars, rateInfoVars, placesVars, store, settingsVars,
                   hookVars, pending, meterVars, estimatedDistance,
                   estimatedTime, showResults, estimatedFare, lastPriced,
                   plannerFareSettings, pollCalls, source, destination,
                   locationVars>>

\* loadFareSettings resolves (it catches a rejected read itself) and
\* calculateDistanceAndTime is called: the lookup is in flight.
handleEstimateTrip_Settings ==
    /\ estimatePc = "loadFareSettings"
    /\ Len(plannerCalls) < MaxInFlight
    /\ \E ok \in BOOLEAN :
           plannerFareSettings' =
               TripPlannerScreen_loadFareSettings(store, ok, plannerFareSettings)
    /\ estimatePc' = "lookup"
    /\ plannerRender(estimatedDistance)
    /\ UNCHANGED <<clockVars, rateInfoVars, placesVars, store, settingsVars,
                   hookVars, pending, meterVars, estimatedDistance,
                   estimatedTime, showResults, estimatedFare, lastPriced,
                   pollCalls, source, destination, isLoading, locationVars>>

\* The lookup resolves with a distance and a duration: the results are
\* set, and the finally block sets isLoading false.
handleEstimateTrip_LookupResult(d) ==
    /\ estimatePc = "lookup"
    /\ Len(plannerCalls) < MaxInFlight
    /\ estimatedDistance' = d
    /\ estimatedTime' = RouteDuration(d)
    /\ showResults' = TRUE
    /\ isLoading' = FALSE
    /\ estimatePc' = "idle"
    /\ plannerRender(d)
    /\ UNCHANGED <<clockVars, rateInfoVars, placesVars, store, settingsVars,
                   hookVars, pending, meterVars, estimatedFare, lastPriced,
                   plannerFareSettings, pollCalls, source, destination,
                   locationVars>>

\* The lookup resolves with null: the alert 'Unable to Calculate
\* Distance', and the finally block.
handleEstimateTrip_LookupNull ==
    /\ estimatePc = "lookup"
    /\ Len(plannerCalls) < MaxInFlight
    /\ alert' = "unableToCalculate"
    /\ isLoading' = FALSE
    /\ estimatePc' = "idle"
    /\ plannerRender(estimatedDistance)
    /\ UNCHANGED <<clockVars, rateInfoVars, placesVars, store, settingsVars,
                   hookVars, pending, isRunning, tickIntervals,
                   showManualInput, manualDistance, estimatedDistance,
                   estimatedTime, showResults, estimatedFare, lastPriced,
                   plannerFareSettings, pollCalls, source, destination,
                   locationVars>>

handleEstimateTrip_LookupThrows_NoFinally ==
    /\ estimatePc = "lookup"
    /\ Len(plannerCalls) < MaxInFlight
    /\ alert' = "error"
    /\ estimatePc' = "idle"
    /\ plannerRender(estimatedDistance)
    /\ UNCHANGED <<clockVars, rateInfoVars, placesVars, store, settingsVars,
                   hookVars, pending, isRunning, tickIntervals,
                   showManualInput, manualDistance, estimatedDistance,
                   estimatedTime, showResults, estimatedFare, lastPriced,
                   plannerFareSettings, pollCalls, source, destination,
                   isLoading, locationVars>>

\* The lookup rejects: the catch and its alert 'Error', and the finally
\* block.
handleEstimateTrip_LookupThrows ==
    /\ estimatePc = "lookup"
    /\ Len(plannerCalls) < MaxInFlight
    /\ alert' = "error"
    /\ isLoading' = FALSE
    /\ estimatePc' = "idle"
    /\ plannerRender(estimatedDistance)
    /\ UNCHANGED <<clockVars, rateInfoVars, placesVars, store, settingsVars,
                   hookVars, pending, isRunning, tickIntervals,
                   showManualInput, manualDistance, estimatedDistance,
                   estimatedTime, showResults, estimatedFare, lastPriced,
                   plannerFareSettings, pollCalls, source, destination,
                   locationVars>>

\* handleEstimateTrip with both fields filled when its two awaits resolve
\* before anything else happens: from the press, through the reload of the
\* settings, to the route lookup resolving with a distance and a duration
\* and the finally block (isLoading is false again when the step ends).
handleEstimateTrip_Result(d) ==
    /\ FieldsFilled
    /\ ~isLoading
    /\ Len(plannerCalls) < MaxInFlight
    /\ \E ok \in BOOLEAN :
           plannerFareSettings' =
               TripPlannerScreen_loadFareSettings(store, ok, plannerFareSettings)
    /\ estimatedDistance' = d
    /\ estimatedTime' = RouteDuration(d)
    /\ showResults' = TRUE
    /\ plannerRender(d)
    /\ UNCHANGED <<clockVars, rateInfoVars, placesVars, store, settingsVars,
                   hookVars, pending, meterVars, estimatedFare, lastPriced,
                   pollCalls, estimateVars, locationVars>>

\* handleEstimateTrip when the lookup resolves with null: the alert
\* 'Unable to Calculate Distance'.
handleEstimateTrip_NoResult_ShowsEmpty ==
    /\ FieldsFilled
    /\ ~isLoading
    /\ Len(plannerCalls) < MaxInFlight
    /\ \E ok \in BOOLEAN :
           plannerFareSettings' =
               TripPlannerScreen_loadFareSettings(store, ok, plannerFareSettings)
    /\ alert' = "unableToCalculate"
    /\ estimatedDistance' = Whole(0)
    /\ estimatedTime' = Whole(0)
    /\ showResults' = TRUE
    /\ plannerRender(Whole(0))
    /\ UNCHANGED <<clockVars, rateInfoVars, placesVars, store, settingsVars,
                   hookVars, pending, isRunning, tickIntervals,
                   showManualInput, manualDistance, estimatedFare, lastPriced,
                   pollCalls, estimateVars, locationVars>>

handleEstimateTrip_NoResult ==
    /\ FieldsFilled
    /\ ~isLoading
    /\ Len(plannerCalls) < MaxInFlight
    /\ \E ok \in BOOLEAN :
           plannerFareSettings' =
               TripPlannerScreen_loadFareSettings(store, ok, plannerFareSettings)
    /\ alert' = "unableToCalculate"
    /\ plannerRender(estimatedDistance)
    /\ UNCHANGED <<clockVars, rateInfoVars, placesVars, store, settingsVars,
                   hookVars, pending, isRunning, tickIntervals,
                   showManualInput, manualDistance, estimatedDistance,
                   estimatedTime, showResults, estimatedFare, lastPriced,
                   pollCalls, estimateVars, locationVars>>

\* handleEstimateTrip when the lookup rejects: the catch and its alert.
handleEstimateTrip_Error ==
    /\ FieldsFilled
    /\ ~isLoading
    /\ Len(plannerCalls) < MaxInFlight
    /\ \E ok \in BOOLEAN :
           plannerFareSettings' =
               TripPlannerScreen_loadFareSettings(store, ok, plannerFareSettings)
    /\ alert' = "error"
    /\ plannerRender(estimatedDistance)
    /\ UNCHANGED <<clockVars, rateInfoVars, placesVars, store, settingsVars,
                   hookVars, pending, isRunning, tickIntervals,
                   showManualInput, manualDistance, estimatedDistance,
                   estimatedTime, showResults, estimatedFare, lastPriced,
                   pollCalls, estimateVars, locationVars>>

\* The OK button of an alert of handleEstimateTrip.
plannerAlertDismiss ==
    /\ alert \in {"missingInformation", "unableToCalculate", "error"}
    /\ alert' = "none"
    /\ UNCHANGED <<clockVars, rateInfoVars, placesVars, store, settingsVars,
                   hookVars, pending, isRunning, tickIntervals,
                   showManualInput, manualDistance, plannerVars, locationVars>>

\* handleClearTrip.
handleClearTrip ==
    /\ Len(plannerCalls) < MaxInFlight
    /\ estimatedDistance' = Whole(0)
    /\ estimatedTime' = Whole(0)
    /\ showResults' = FALSE
    /\ source' = <<>>
    /\ destination' = <<>>
    /\ plannerRender(Whole(0))
    /\ UNCHANGED <<clockVars, rateInfoVars, placesVars, store, settingsVars,
                   hookVars, pending, meterVars, estimatedFare, lastPriced,
                   plannerFareSettings, pollCalls, isLoading, estimatePc,
                   locationVars>>

\* The one-second interval of the settings effect fires: its callback,
\* closing over the state of the render that installed it, awaits getItem.
settingsInterval_Tick ==
    /\ Len(pollCalls) < MaxInFlight
    /\ pollCalls' = Append(pollCalls,
                           [fareSettings      |-> plannerFareSettings,
                            showResults       |-> showResults,
                            estimatedDistance |-> estimatedDistance,
                            isNightForTrip    |-> isNightForTrip])
    /\ UNCHANGED <<clockVars, rateInfoVars, placesVars, store, settingsVars,
                   hookVars, pending, meterVars, estimatedDistance,
                   showResults, isNightForTrip, estimatedFare, plannerCalls,
                   lastPriced, plannerFareSettings, estimatedTime,
                   estimateVars, locationVars>>

\* Whether the callback finds the settings changed: the record read,
\* parsed and stringified, differs from the stringified fareSettings.
settingsChanged(item, ok, fareSettingsSeen) ==
    /\ ok
    /\ item # <<>>
    /\ JSONstringify(JSONparse(item[1])) # JSONstringify(fareSettingsSeen)

\* getItem resolves for the oldest callback: when the settings changed
\* they are set, and with results showing for a distance > 0 the fare is
\* asked for again. A rejected read ends the callback.
settingsInterval_Item ==
    /\ pollCalls # <<>>
    /\ Len(plannerCalls) < MaxInFlight
    /\ \E ok \in BOOLEAN :
           LET c       == Head(pollCalls)
               changed == settingsChanged(store, ok, c.fareSettings)
               night   == isNightTime(hour)
               asked   == IF changed /\ c.showResults
                             /\ JsGt(c.estimatedDistance, Whole(0))
                          THEN Append(plannerCalls,
                                      [distanceKm    |-> c.estimatedDistance,
                                       isNightActive |-> c.isNightForTrip])
                          ELSE plannerCalls
           IN  /\ plannerFareSettings' =
                       IF changed THEN JSONparse(store[1]) ELSE plannerFareSettings
               /\ isNightForTrip' = night
               /\ plannerCalls' =
                       IF night # isNightForTrip
                       THEN Append(asked, [distanceKm    |-> estimatedDistance,
                                           isNightActive |-> night])
                       ELSE asked
    /\ pollCalls' = Tail(pollCalls)
    /\ UNCHANGED <<clockVars, rateInfoVars, placesVars, store, settingsVars,
                   hookVars, pending, meterVars, estimatedDistance,
                   showResults, estimatedFare, lastPriced, estimatedTime,
                   estimateVars, locationVars>>

\* calculateFareForDistance resolving for the oldest call, and its caller
\* (updateFare, or the interval callback) setting the estimated fare.
calculateFareForDistance_Then ==
    /\ plannerCalls # <<>>
    /\ \E ok \in BOOLEAN :
           LET settings == loadFareSettings(store, ok)
               call     == Head(plannerCalls)
           IN  /\ estimatedFare' =
                       calculateFareInternal(call.distanceKm, call.isNightActive,
                                             <<settings>>, plannerHookSettings)
               /\ lastPriced' = <<[call |-> call, item |-> store, ok |-> ok]>>
    /\ plannerCalls' = Tail(plannerCalls)
    /\ UNCHANGED <<clockVars, rateInfoVars, placesVars, store, settingsVars,
                   hookVars, pending, meterVars, estimatedDistance,
                   showResults, isNightForTrip, plannerFareSettings,
                   estimatedTime, pollCalls, estimateVars, locationVars>>

\* calculateBreakdownValues of the render: from the screen's fareSettings.
calculateBreakdownValues_SurchargeOnBase ==
    LET baseFareAmount       == plannerFareSettings.baseFare
        additionalDistance   == MathMax(Whole(0),
                                        JsSub(estimatedDistance,
                                              plannerFareSettings.baseDistance))
        additionalFareAmount == JsMul(additionalDistance,
                                      plannerFareSettings.ratePerKm)
        subtotal             == JsAdd(baseFareAmount, additionalFareAmount)
        nightSurcharge       == IF isNightForTrip
                                THEN JsMul(baseFareAmount, Fin(1, 2))
                                ELSE Whole(0)
    IN  [baseFareAmount       |-> baseFareAmount,
         additionalDistance   |-> additionalDistance,
         additionalFareAmount |-> additionalFareAmount,
         subtotal             |-> subtotal,
         nightSurcharge       |-> nightSurcharge]

calculateBreakdownValues ==
    LET baseFareAmount       == plannerFareSettings.baseFare
        additionalDistance   == MathMax(Whole(0),
                                        JsSub(estimatedDistance,
                                              plannerFareSettings.baseDistance))
        additionalFareAmount == JsMul(additionalDistance,
                                      plannerFareSettings.ratePerKm)
        subtotal             == JsAdd(baseFareAmount, additionalFareAmount)
        nightSurcharge       == IF isNightForTrip
                                THEN JsMul(subtotal, Fin(1, 2))
                                ELSE Whole(0)
    IN  [baseFareAmount       |-> baseFareAmount,
         additionalDistance   |-> additionalDistance,
         additionalFareAmount |-> additionalFareAmount,
         subtotal             |-> subtotal,
         nightSurcharge       |-> nightSurcharge]

(***************************************************************************)
(* Specifications.                                                         *)
(***************************************************************************)
\* The application after a fresh install, all screens mounted; the
\* planner's updateFare effect of the mount is awaiting the store.
\* Spec: a meter session in manual mode while the tariff is edited.
Init ==
    /\ hour = FirstHour
    /\ store = <<>>
    /\ tempSettings = DEFAULT_SETTINGS
    /\ distance = Whole(0)
    /\ fare = Whole(0)
    /\ isNight = FALSE
    /\ fareSettings = DEFAULT_SETTINGS
    /\ pending = <<>>
    /\ isRunning = FALSE
    /\ showManualInput = FALSE
    /\ manualDistance = <<>>
    /\ alert = "none"
    /\ estimatedDistance = Whole(0)
    /\ showResults = FALSE
    /\ isNightForTrip = isNightTime(hour)
    /\ estimatedFare = Whole(0)
    /\ plannerCalls = <<[distanceKm |-> Whole(0), isNightActive |-> isNightTime(hour)]>>
    /\ lastPriced = <<>>
    /\ isWeb = TRUE
    /\ permission = "denied"
    /\ elapsedTime = 0
    /\ hasPermission = FALSE
    /\ distanceTraveled = Whole(0)
    /\ isTracking = FALSE
    /\ lastLocationRef = <<>>
    /\ lastSample = <<>>
    /\ currentLocation = <<>>
    /\ settingsState = DEFAULT_SETTINGS
    /\ hasChanges = FALSE
    /\ source = <<>>
    /\ destination = <<>>
    /\ isLoading = FALSE
    /\ estimatePc = "idle"
    /\ watcherRef = <<>>
    /\ watchers = 0
    /\ startPc = "idle"
    /\ lastCommand = "none"
    /\ tickIntervals = 0
    /\ screenFareSettings = DEFAULT_SETTINGS
    /\ plannerFareSettings = TripPlannerScreen_loadFareSettings(store, TRUE, DEFAULT_SETTINGS)
    /\ estimatedTime = Whole(0)
    /\ pollCalls = <<>>
    /\ placeValue = <<>>
    /\ delayedSearch = <<>>
    /\ lookups = {}
    /\ suggestions = <<>>
    /\ isGoogleMapsLoaded = FALSE

Next ==
    \/ \E value \in SessionSettingTexts : updateBaseFare(value)
    \/ \E value \in SessionSettingTexts : updateBaseDistance(value)
    \/ \E value \in SessionSettingTexts : updateRatePerKm(value)
    \/ saveSettings
    \/ performReset
    \/ ClockAdvance
    \/ handleStartMeter
    \/ chooseManualDistance
    \/ chooseCancel
    \/ handleStopMeter
    \/ handleResetMeter
    \/ \E value \in DistanceTexts : handleManualDistanceChange(value)
    \/ updateDistance_Then

Spec == Init /\ [][Next]_vars

\* The trip planner opened at any hour over any tariff a save accepts (or
\* none), with both fields filled: route distances are estimated and priced.
InitEstimate ==
    /\ hour \in Hours
    /\ store \in {<<>>} \cup {<<JSONstringify(t)>> : t \in PositiveTariffs}
    /\ tempSettings = DEFAULT_SETTINGS
    /\ distance = Whole(0)
    /\ fare = Whole(0)
    /\ isNight = FALSE
    /\ fareSettings = DEFAULT_SETTINGS
    /\ pending = <<>>
    /\ isRunning = FALSE
    /\ showManualInput = FALSE
    /\ manualDistance = <<>>
    /\ alert = "none"
    /\ estimatedDistance = Whole(0)
    /\ showResults = FALSE
    /\ isNightForTrip = isNightTime(hour)
    /\ estimatedFare = Whole(0)
    /\ plannerCalls = <<[distanceKm |-> Whole(0), isNightActive |-> isNightTime(hour)]>>
    /\ lastPriced = <<>>
    /\ isWeb = TRUE
    /\ permission = "denied"
    /\ elapsedTime = 0
    /\ hasPermission = FALSE
    /\ distanceTraveled = Whole(0)
    /\ isTracking = FALSE
    /\ lastLocationRef = <<>>
    /\ lastSample = <<>>
    /\ currentLocation = <<>>
    /\ settingsState = DEFAULT_SETTINGS
    /\ hasChanges = FALSE
    /\ source \in RouteTexts
    /\ destination \in RouteTexts
    /\ isLoading = FALSE
    /\ estimatePc = "idle"
    /\ watcherRef = <<>>
    /\ watchers = 0
    /\ startPc = "idle"
    /\ lastCommand = "none"
    /\ tickIntervals = 0
    /\ screenFareSettings = DEFAULT_SETTINGS
    /\ plannerFareSettings = TripPlannerScreen_loadFareSettings(store, TRUE, DEFAULT_SETTINGS)
    /\ estimatedTime = Whole(0)
    /\ pollCalls = <<>>
    /\ placeValue = <<>>
    /\ delayedSearch = <<>>
    /\ lookups = {}
    /\ suggestions = <<>>
    /\ isGoogleMapsLoaded = FALSE

NextEstimate ==
    \/ \E d \in RouteDistances : handleEstimateTrip_Result(d)
    \/ calculateFareForDistance_Then

SpecEstimate == InitEstimate /\ [][NextEstimate]_vars

\* The meter screen of meter.tsx, in a browser or under Expo Location, with
\* position access granted or denied, over the default tariff.
InitMeter ==
    /\ hour = FirstHour
    /\ store = <<>>
    /\ tempSettings = DEFAULT_SETTINGS
    /\ distance = Whole(0)
    /\ fare = Whole(0)
    /\ isNight = FALSE
    /\ fareSettings = DEFAULT_SETTINGS
    /\ pending = <<>>
    /\ isRunning = FALSE
    /\ showManualInput = FALSE
    /\ manualDistance = <<>>
    /\ alert = "none"
    /\ estimatedDistance = Whole(0)
    /\ showResults = FALSE
    /\ isNightForTrip = isNightTime(hour)
    /\ estimatedFare = Whole(0)
    /\ plannerCalls = <<>>
    /\ lastPriced = <<>>
    /\ isWeb \in BOOLEAN
    /\ permission \in {"granted", "denied"}
    /\ elapsedTime = 0
    /\ hasPermission = FALSE
    /\ distanceTraveled = Whole(0)
    /\ isTracking = FALSE
    /\ lastLocationRef = <<>>
    /\ lastSample = <<>>
    /\ currentLocation = <<>>
    /\ settingsState = DEFAULT_SETTINGS
    /\ hasChanges = FALSE
    /\ source = <<>>
    /\ destination = <<>>
    /\ isLoading = FALSE
    /\ estimatePc = "idle"
    /\ watcherRef = <<>>
    /\ watchers = 0
    /\ startPc = "idle"
    /\ lastCommand = "none"
    /\ tickIntervals = 0
    /\ screenFareSettings = DEFAULT_SETTINGS
    /\ plannerFareSettings = TripPlannerScreen_loadFareSettings(store, TRUE, DEFAULT_SETTINGS)
    /\ estimatedTime = Whole(0)
    /\ pollCalls = <<>>
    /\ placeValue = <<>>
    /\ delayedSearch = <<>>
    /\ lookups = {}
    /\ suggestions = <<>>
    /\ isGoogleMapsLoaded = FALSE

NextMeter ==
    \/ MeterScreen_handleStartMeter
    \/ handleStartMeter_Probe
    \/ alertDismiss
    \/ startTracking_Permission
    \/ \E initialLocation \in Positions : startTracking_Position(initialLocation)
    \/ startTracking_PositionError
    \/ startTracking_Watcher
    \/ \E location \in Positions : watchPosition_Callback(location)
    \/ watchPosition_Error
    \/ elapsedTimeTick
    \/ updateDistance_Then
    \/ handleStopMeter
    \/ handleResetMeter

SpecMeter == InitMeter /\ [][NextMeter]_vars

\* The settings screen alone: every text is typed into every field.
NextSettings ==
    \/ \E value \in SettingTexts : updateBaseFare(value)
    \/ \E value \in SettingTexts : updateBaseDistance(value)
    \/ \E value \in SettingTexts : updateRatePerKm(value)
    \/ saveSettings
    \/ performReset

SpecSettings == Init /\ [][NextSettings]_vars

\* The trip planner while the tariff is edited and the clock advances.
NextPlanner ==
    \/ \E text \in NewTariffTexts : updateBaseFare(text)
    \/ saveSettings
    \/ performReset
    \/ ClockAdvance
    \/ \E text \in RouteTexts : setSource(text)
    \/ \E text \in RouteTexts : setDestination(text)
    \/ \E d \in EditedRouteDistances : handleEstimateTrip_Result(d)
    \/ handleEstimateTrip_NoResult
    \/ handleEstimateTrip_Error
    \/ plannerAlertDismiss
    \/ handleClearTrip
    \/ settingsInterval_Tick
    \/ settingsInterval_Item
    \/ calculateFareForDistance_Then

SpecPlanner == Init /\ [][NextPlanner]_vars

\* The trip planner while its fields are typed into and estimates are
\* asked for, each await of handleEstimateTrip a step of its own.
AttemptDistances == { Fin(5, 2) }

NextAttempt ==
    \/ \E text \in TripTexts : setSource(text)
    \/ \E text \in TripTexts : setDestination(text)
    \/ handleEstimateTrip_Missing
    \/ handleEstimateTrip_Press
    \/ handleEstimateTrip_Settings
    \/ \E d \in AttemptDistances : handleEstimateTrip_LookupResult(d)
    \/ handleEstimateTrip_LookupNull
    \/ handleEstimateTrip_LookupThrows
    \/ plannerAlertDismiss
    \/ handleClearTrip
    \/ calculateFareForDistance_Then
    \/ ClockAdvance

SpecAttempt == Init /\ [][NextAttempt]_vars

\* The awaits of an attempt resolve: the store answers getItem, and the
\* route lookup resolves or rejects; so do the fare calls of the renders
\* (weak fairness of calculateFareForDistance_Then, written out: the step
\* is enabled exactly when plannerCalls holds a call).
AttemptSettles ==
    \/ \E d \in AttemptDistances : handleEstimateTrip_LookupResult(d)
    \/ handleEstimateTrip_LookupNull
    \/ handleEstimateTrip_LookupThrows

SpecAttemptFair ==
    /\ SpecAttempt
    /\ WF_vars(handleEstimateTrip_Settings)
    /\ WF_vars(AttemptSettles)
    /\ \/ []<>(plannerCalls = <<>>)
       \/ []<><<calculateFareForDistance_Then>>_vars

\* The meter screen of meter.tsx in a browser that grants position access,
\* while the tariff is edited.
InitTariff ==
    /\ InitMeter
    /\ isWeb
    /\ permission = "granted"

NextTariff ==
    \/ \E text \in NewTariffTexts : updateBaseFare(text)
    \/ saveSettings
    \/ MeterScreen_loadFareSettings
    \/ MeterScreen_handleStartMeter
    \/ handleStartMeter_Probe
    \/ alertDismiss
    \/ \E initialLocation \in Positions : startTracking_Position(initialLocation)
    \/ \E location \in Positions : watchPosition_Callback(location)
    \/ updateDistance_Then

SpecTariff == InitTariff /\ [][NextTariff]_vars

\* One place field of the trip planner, typed into.
NextPlaces ==
    \/ script_onload
    \/ \E text \in PlaceTexts : handleTextChange(text)
    \/ delayedSearch_Timeout
    \/ \E query \in PlaceTexts, statusOK \in BOOLEAN :
           getPlacePredictions_Callback(query, statusOK)

SpecPlaces == Init /\ [][NextPlaces]_vars

\* useLocationTracking under the meter screen of meter.tsx, with a consumer
\* that also calls resetTracking.
NextTracker ==
    \/ MeterScreen_handleStartMeter
    \/ handleStartMeter_Probe
    \/ startTracking_Permission
    \/ \E initialLocation \in Positions : startTracking_Position(initialLocation)
    \/ startTracking_PositionError
    \/ startTracking_Watcher
    \/ \E location \in Positions : watchPosition_Callback(location)
    \/ updateDistance_Then
    \/ handleStopMeter
    \/ resetTracking

SpecTracker == InitMeter /\ [][NextTracker]_vars

\* The meter screen with the mode chooser in a standalone window, with
\* position access granted or denied: every button of the chooser and of
\* the alerts, the location attempt, stop and reset.
InitChooser ==
    /\ InitMeter
    /\ isWeb

NextChooser ==
    \/ handleStartMeter
    \/ chooseManualDistance
    \/ chooseTryLocation
    \/ chooseCancel
    \/ attemptLocationAccess_Query
    \/ attemptLocationAccess_Position
    \/ attemptLocationAccess_PositionError
    \/ \E initialLocation \in Positions : startTracking_Position(initialLocation)
    \/ attemptLocationAccess_TrackingError
    \/ chooseManualMode
    \/ chooseManualModeCancel
    \/ \E value \in DistanceTexts : handleManualDistanceChange(value)
    \/ updateDistance_Then
    \/ elapsedTimeTick
    \/ handleStopMeter
    \/ handleResetMeter

SpecChooser == InitChooser /\ [][NextChooser]_vars

(***************************************************************************)
(* Properties.                                                             *)
(***************************************************************************)
\* A number that is finite and greater than 0.
IsPositive(x) == x.k = "num" /\ x.n > 0

IsPositiveTariff(t) ==
    IsPositive(t.baseFare) /\ IsPositive(t.baseDistance) /\ IsPositive(t.ratePerKm)

IsWholeNonNegative(x) == x.k = "num" /\ x.d = 1 /\ x.n >= 0

\* baseFare + ratePerKm * max(0, d - baseDistance), not rounded.
DaySubtotal(d, t) ==
    JsAdd(t.baseFare,
          JsMul(t.ratePerKm, MathMax(Whole(0), JsSub(d, t.baseDistance))))

\* The trip planner has priced a call: its arguments, and the tariff its
\* load of the store returned.
Priced == lastPriced # <<>>

PricedDistance == lastPriced[1].call.distanceKm

PricedNight == lastPriced[1].call.isNightActive

PricedTariff ==
    IF lastPriced[1].ok /\ lastPriced[1].item # <<>>
    THEN lastPriced[1].item[1]
    ELSE DEFAULT_SETTINGS

\* C1: for every distance d >= 0 and every tariff t with positive fields,
\* the day fare (isNight = false) returned by calculateFareForDistance is
\* round(t.baseFare + t.ratePerKm * max(0, d - t.baseDistance)).
C1_DayFare ==
    (/\ Priced
     /\ ~PricedNight
     /\ JsLe(Whole(0), PricedDistance)
     /\ IsPositiveTariff(PricedTariff))
    => estimatedFare = MathRound(DaySubtotal(PricedDistance, PricedTariff))

\* A day fare beyond the base distance of a tariff that is not the default.
C1_Witness ==
    /\ Priced
    /\ ~PricedNight
    /\ PricedTariff # DEFAULT_SETTINGS
    /\ JsGt(PricedDistance, PricedTariff.baseDistance)
    /\ estimatedFare = MathRound(DaySubtotal(PricedDistance, PricedTariff))

\* C2: the night fare is round(1.5 * unrounded day subtotal): the surcharge
\* multiplies the whole subtotal before the one final rounding; at distance
\* 0 under the default tariff it is round(1.5 * 30) = 45.
C2_NightFare ==
    (Priced /\ PricedNight /\ JsLe(Whole(0), PricedDistance))
    => /\ estimatedFare =
              MathRound(JsMul(Fin(3, 2), DaySubtotal(PricedDistance, PricedTariff)))
       /\ (PricedDistance = Whole(0) /\ PricedTariff = DEFAULT_SETTINGS)
              => estimatedFare = Whole(45)

\* A night fare that differs from 1.5 times the rounded day fare, rounded.
C2_Witness ==
    /\ Priced
    /\ PricedNight
    /\ estimatedFare =
           MathRound(JsMul(Fin(3, 2), DaySubtotal(PricedDistance, PricedTariff)))
    /\ estimatedFare #
           MathRound(JsMul(Fin(3, 2),
                           MathRound(DaySubtotal(PricedDistance, PricedTariff))))

\* C3: the fare is monotone in the distance: with the night flag and the
\* tariff fixed, d1 < d2 implies fare(d1) <= fare(d2).
C3_Monotone ==
    Priced =>
        \A d2 \in RouteDistances :
            ~JsLe(d2, PricedDistance) =>
                JsLe(estimatedFare,
                     calculateFareInternal(d2, PricedNight, <<PricedTariff>>,
                                           plannerHookSettings))

\* A priced distance and a longer one with a strictly higher fare.
C3_Witness ==
    /\ Priced
    /\ \E d2 \in RouteDistances :
           /\ ~JsLe(d2, PricedDistance)
           /\ ~JsLe(calculateFareInternal(d2, PricedNight, <<PricedTariff>>,
                                          plannerHookSettings),
                    estimatedFare)

\* The fare before the final rounding, as the exact rational n/d.
Unrounded ==
    IF PricedNight
    THEN JsMul(Fin(3, 2), DaySubtotal(PricedDistance, PricedTariff))
    ELSE DaySubtotal(PricedDistance, PricedTariff)

\* C4: the final rounding is to the nearest whole number with an exact half
\* rounded up: default tariff, 2 km by day: 37.5 gives 38; 5 km by night:
\* 123.75 gives 124.
C4_RoundHalfUp ==
    Priced =>
        LET x == Unrounded
            f == estimatedFare
        IN  /\ f.k = "num" /\ f.d = 1
            /\ 2 * Abs(f.n * x.d - x.n) <= x.d
            /\ (2 * Abs(f.n * x.d - x.n) = x.d) => (f.n * x.d > x.n)
            /\ (/\ PricedTariff = DEFAULT_SETTINGS
                /\ PricedDistance = Whole(2)
                /\ ~PricedNight) => (x = Fin(75, 2) /\ f = Whole(38))
            /\ (/\ PricedTariff = DEFAULT_SETTINGS
                /\ PricedDistance = Whole(5)
                /\ PricedNight) => (x = Fin(495, 4) /\ f = Whole(124))

\* The 2 km day trip under the default tariff, priced 38.
C4_Witness ==
    /\ Priced
    /\ PricedTariff = DEFAULT_SETTINGS
    /\ PricedDistance = Whole(2)
    /\ ~PricedNight
    /\ estimatedFare = Whole(38)

\* C7: when the store holds no 'fareSettings' record, or reading or parsing
\* it fails, the engine prices with the default tariff {30, 1.5, 15} and
\* returns a fare.
C7_DefaultWhenNoRecord ==
    (Priced /\ (lastPriced[1].item = <<>> \/ ~lastPriced[1].ok)) =>
        LET d   == PricedDistance
            sub == IF JsLe(d, Fin(3, 2))
                   THEN Whole(30)
                   ELSE JsAdd(Whole(30), JsMul(Whole(15), JsSub(d, Fin(3, 2))))
        IN  /\ IsWholeNonNegative(estimatedFare)
            /\ estimatedFare =
                   MathRound(IF PricedNight THEN JsMul(Fin(3, 2), sub) ELSE sub)

\* A failed read over a stored tariff that is not the default, priced with
\* the default: 2 km by day is 38.
C7_Witness ==
    /\ Priced
    /\ ~lastPriced[1].ok
    /\ lastPriced[1].item # <<>>
    /\ lastPriced[1].item[1] # DEFAULT_SETTINGS
    /\ PricedDistance = Whole(2)
    /\ ~PricedNight
    /\ estimatedFare = Whole(38)

\* C10: isNightTime is true exactly at the hours 22, 23, 0, 1, 2, 3, 4.
C10_NightWindow ==
    /\ isNightForTrip <=> hour \in {22, 23, 0, 1, 2, 3, 4}
    /\ Priced => (PricedNight <=> hour \in {22, 23, 0, 1, 2, 3, 4})

\* An estimate priced at hour 22, as night.
C10_Witness ==
    /\ hour = 22
    /\ Priced
    /\ PricedNight
    /\ isNightForTrip

\* C5: every fare the engine produces, the meter's and the planner's, is a
\* non-negative whole number, and it is determined by the distance, the
\* night flag and the tariff read: the displayed fare is the engine's value
\* for the displayed distance, night flag and tariff (or the reset state).
C5_FareWholeAndDetermined ==
    /\ IsWholeNonNegative(fare)
    /\ IsWholeNonNegative(estimatedFare)
    /\ \/ (distance = Whole(0) /\ fare = Whole(0) /\ ~isNight)
       \/ fare = calculateFareInternal(distance, isNight, <<fareSettings>>,
                                       fareSettings)

\* C6: a stored record that fails validation (a field that is not greater
\* than 0) is replaced by the default tariff when it is loaded, so the
\* tariff a fare was computed with always has three positive fields.
C6_InvalidTariffNeverUsed == IsPositiveTariff(fareSettings)

\* C8: a negative or NaN distance given to the meter's distance update is
\* clamped to 0: the session distance is never negative and never NaN.
C8_DistanceClamped == JsLe(Whole(0), distance)

\* C9: the persisted 'fareSettings' record is absent or has baseFare > 0,
\* baseDistance > 0 and ratePerKm > 0.
C9_StoredTariffPositive == store = <<>> \/ IsPositiveTariff(store[1])

\* C11: on each position sample the delta from the previous sample is added
\* to the cumulative distance only if it is strictly above the jitter floor
\* (10 m under Expo Location, 1 m in the browser) and strictly below 1 km;
\* for any other delta (0, a jitter of 5 m under Expo Location, a 5000 km
\* jump) the cumulative distance is unchanged; the sample becomes the
\* previous sample either way.
C11_DeltaFilter ==
    [][\A location \in Positions :
           watchPosition_Callback(location) =>
               LET metres == IF lastLocationRef # <<>>
                             THEN Abs(location - lastLocationRef[1])
                             ELSE 0
                   floor  == IF isWeb THEN 1 ELSE 10
               IN  /\ distanceTraveled' =
                          IF metres > floor /\ metres < 1000
                          THEN JsAdd(distanceTraveled, Fin(metres, 1000))
                          ELSE distanceTraveled
                   /\ (metres = 0 \/ metres >= 1000 \/ (~isWeb /\ metres = 5))
                          => distanceTraveled' = distanceTraveled
                   /\ lastLocationRef' = <<location>>]_vars

\* Under Expo Location, 25 m were added and then a sample 5000 km away was
\* consumed without adding anything.
C11_Witness ==
    /\ ~isWeb
    /\ watchers > 0
    /\ lastLocationRef = <<5000000>>
    /\ distanceTraveled = Fin(25, 1000)

\* C12: between a start and the following stop or reset the distance the
\* meter displays and prices is never negative and never decreases,
\* whatever the order of samples, distance-update completions and manual
\* entries.
C12_SessionDistanceMonotone ==
    [][(isRunning /\ isRunning') =>
           (JsLe(Whole(0), distance') /\ JsLe(distance, distance'))]_vars

\* C13: if position permission is not granted when the user starts the
\* meter, the session remains Idle: when the handling of the start finishes
\* (the startTracking call it awaits has settled) isRunning is false, so
\* that the elapsed-time tick, which runs while isRunning, does not run.
C13_DeniedStaysIdle ==
    [][(permission = "denied" /\ startPc # "idle" /\ startPc' = "idle") =>
           ~isRunning']_vars

\* The manual-distance mode is on, or an alert with a button that turns it
\* on is on screen.
ManualFallbackOffered == showManualInput \/ alert = "chooseMode"

\* C14: after position permission is denied or location is unavailable at
\* start, the manual-distance mode is reachable: when the handling of the
\* failed start finishes, the manual input is shown or the user is offered
\* a button that shows it, so that a continuation exists in which
\* showManualInput is true and the entered distance is priced.
C14_ManualFallbackAfterDenial ==
    [][(startPc # "idle" /\ startPc' = "idle" /\ ~hasPermission') =>
           ManualFallbackOffered']_vars

\* C15: a start zeroes the accumulators: when the session starts running,
\* and before any sample or tick of the new session is processed, elapsed
\* seconds, displayed distance and displayed fare are all zero, also when
\* the previous session was stopped without a reset.
C15_StartZeroesAccumulators ==
    [][(~isRunning /\ isRunning') =>
           (elapsedTime' = 0 /\ distance' = Whole(0) /\ fare' = Whole(0))]_vars

\* C16: stop moves the session to Idle and freezes it: from the stop until
\* the next start or reset, displayed distance, fare and elapsed seconds
\* keep the values they had at the stop; no late sample, pending distance
\* update or timer tick changes them.
C16_StopFreezes ==
    [][/\ handleStopMeter => ~isRunning'
       /\ (lastCommand = "stop" /\ lastCommand' = "stop") =>
              UNCHANGED <<distance, fare, elapsedTime>>]_vars

\* C17: after a reset, and until the next start, the session is Idle with
\* elapsed seconds, fare and distance all zero, also when the reset was
\* pressed while a distance update was pending or a sample was in flight.
C17_ResetStaysZero ==
    lastCommand = "reset" =>
        /\ ~isRunning
        /\ elapsedTime = 0
        /\ fare = Whole(0)
        /\ distance = Whole(0)

\* The session state a reset leaves: Idle, elapsed 0, distance 0, fare 0,
\* manual input hidden and empty, no subscription held.
ResetState ==
    /\ ~isRunning
    /\ elapsedTime = 0
    /\ distance = Whole(0)
    /\ fare = Whole(0)
    /\ ~isNight
    /\ ~showManualInput
    /\ manualDistance = <<>>
    /\ watcherRef = <<>>
    /\ ~isTracking

\* C18: reset is idempotent: from any session state a reset leaves the
\* reset state, and a reset pressed in the reset state changes nothing, so
\* that pressing it twice in a row leaves exactly what pressing it once
\* leaves.
C18_ResetIdempotent ==
    [][/\ handleResetMeter => ResetState'
       /\ (ResetState /\ handleResetMeter) =>
              UNCHANGED <<clockVars, rateInfoVars, placesVars, store, settingsVars, hookVars, pending,
                          meterVars, plannerVars, envVars, trackingVars,
                          elapsedTime, hasPermission>>]_vars

\* A reset pressed during a running session with a sample consumed, a
\* distance update pending and seconds elapsed has left the reset state.
C18_Witness ==
    /\ lastCommand = "reset"
    /\ ResetState
    /\ pending # <<>>
    /\ lastLocationRef # <<>>
    /\ JsGt(distanceTraveled, Whole(0))

\* C19: once a stop or a reset has completed, and until the next start, no
\* position subscription is active, so that no sample is consumed, in every
\* interleaving, including a stop issued while startTracking is still
\* awaiting the permission, the first fix or the watcher.
C19_NoSubscriptionAfterStop ==
    lastCommand \in {"stop", "reset"} => watchers = 0

\* C20: teardown is idempotent: stopTracking, also when no subscription was
\* ever established or when it was just called, completes, leaves the
\* cumulative distance and the last position unchanged, removes nothing but
\* the subscription held, and ends with no subscription held and isTracking
\* false.
C20_TeardownIdempotent ==
    [][(handleStopMeter \/ handleResetMeter) =>
           /\ watcherRef' = <<>>
           /\ ~isTracking'
           /\ distanceTraveled' = distanceTraveled
           /\ lastLocationRef' = lastLocationRef
           /\ watchers' = IF watcherRef = <<>> THEN watchers ELSE watchers - 1
           /\ watchers' >= 0]_vars

\* A stop after a start that failed: stopTracking ran with no subscription
\* ever established.
C20_Witness ==
    /\ lastCommand = "stop"
    /\ lastLocationRef = <<>>
    /\ watchers = 0
    /\ watcherRef = <<>>
    /\ ~isTracking
    /\ startPc = "idle"

\* C21: elapsedTime changes only by a tick of +1 while isRunning is true,
\* or to 0; at most one one-second interval is installed at any time, and
\* none while isRunning is false, so that no tick fires in an idle session.
C21_TickOnlyWhileRunning ==
    [][/\ elapsedTime' # elapsedTime =>
              \/ isRunning /\ tickIntervals > 0 /\ elapsedTime' = elapsedTime + 1
              \/ elapsedTime' = 0
       /\ tickIntervals <= 1 /\ tickIntervals' <= 1
       /\ ~isRunning => tickIntervals = 0
       /\ ~isRunning' => tickIntervals' = 0]_vars

\* A second has been counted in a running session that holds one interval.
C21_Witness ==
    /\ isRunning
    /\ tickIntervals = 1
    /\ elapsedTime = 1
    /\ lastCommand = "start"

\* C22: in a running session that shows a distance > 0 and has no update
\* awaiting, once the one-second poll of the meter screen has read a newly
\* saved tariff, the fare shown is the fare of the distance shown under
\* that tariff.
C22_FareFollowsSavedTariff ==
    [][(/\ MeterScreen_loadFareSettings
        /\ screenFareSettings' # screenFareSettings
        /\ isRunning
        /\ pending = <<>>
        /\ JsGt(distance, Whole(0)))
       => fare' = calculateFareInternal(distance', isNight',
                                        <<screenFareSettings'>>, fareSettings')]_vars

\* C23: with an estimate on display for a distance > 0, once the planner
\* has taken up the persisted tariff and neither a fare call nor an
\* interval callback is awaiting, the estimate on display is one priced
\* under the persisted tariff: it has not been left on an older tariff.
\* (Only estimates whose pricing read the store successfully are judged.)
C23_EstimateFollowsTariff ==
    (/\ showResults
     /\ JsGt(estimatedDistance, Whole(0))
     /\ plannerCalls = <<>>
     /\ pollCalls = <<>>
     /\ store # <<>>
     /\ plannerFareSettings = JSONparse(store[1])
     /\ lastPriced # <<>>
     /\ lastPriced[1].ok)
    => estimatedFare =
           calculateFareInternal(lastPriced[1].call.distanceKm,
                                 lastPriced[1].call.isNightActive,
                                 <<JSONparse(store[1])>>, plannerHookSettings)

C25_ArrivalOrder ==
    [][(/\ updateDistance_Then
        /\ showManualInput
        /\ manualDistance # <<>>
        /\ pending' = <<>>)
       => /\ distance' = manualNumValue(manualDistance)
          /\ fare' = calculateFareInternal(manualNumValue(manualDistance),
                                           isNight', <<fareSettings'>>,
                                           fareSettings)]_vars

\* C26: the result of a lookup superseded by a newer one is discarded.
\* With a text in the field that is searched (more than two characters),
\* once no timeout and no lookup is awaiting, the suggestions shown, if
\* there are any, are those of the text in the field, the latest query.
C26_SuggestionsOfLatestQuery ==
    (/\ Len(placeValue) > 2
     /\ delayedSearch = <<>>
     /\ lookups = {}
     /\ suggestions # <<>>)
    => suggestions = <<placeValue>>

\* C27: a route lookup that resolves with no result, or fails, produces no
\* estimate: the step of handleEstimateTrip that handles it leaves
\* estimatedDistance, estimatedTime, showResults and estimatedFare as they
\* were, so that an estimate not shown before is not shown after.
C27_FailedLookupNoEstimate ==
    [][(handleEstimateTrip_NoResult \/ handleEstimateTrip_Error)
       => /\ UNCHANGED <<estimatedDistance, estimatedTime, showResults,
                         estimatedFare>>
          /\ ~showResults => ~showResults']_vars

\* A lookup has found no route while no estimate was shown: its alert is
\* on screen and there is still no estimate.
C27_Witness ==
    /\ alert = "unableToCalculate"
    /\ ~showResults
    /\ estimatedDistance = Whole(0)
    /\ estimatedTime = Whole(0)

\* C28: a distance entered by hand is priced by the same path as a tracked
\* distance. For every change of the field to a text whose number d is one
\* the accumulator can report (finite and not negative), the field hands
\* the fare hook the calls that the effect on [distanceTraveled] hands it
\* when the accumulator reports the total d, so that the fare displayed
\* after the entry is the fare displayed after the report.
C28_ManualPricedAsTracked ==
    [][\A text \in DistanceTexts :
           (/\ handleManualDistanceChange(text)
            /\ text # manualDistance
            /\ IsFinite(manualNumValue(text))
            /\ JsLe(Whole(0), manualNumValue(text)))
           => pending' = distanceTraveledEffect(manualNumValue(text))]_vars

\* C29: an error reported by the position stream after tracking has
\* started leaves the session as it was: isRunning keeps its value, a
\* running session keeps its one-second interval, and the cumulative
\* distance, the elapsed time and the distance and fare on display are
\* not changed by the error.
C29_StreamErrorKeepsSession ==
    [][watchPosition_Error
       => /\ UNCHANGED <<isRunning, tickIntervals, elapsedTime,
                         distanceTraveled, distance, fare>>
          /\ isRunning => (isRunning' /\ tickIntervals' > 0)]_vars

\* The stream has reported an error in a running session that had
\* accumulated distance: the session still runs, holds its watcher and its
\* interval, and has the distance it had.
C29_Witness ==
    /\ isWeb
    /\ isRunning
    /\ tickIntervals = 1
    /\ ~isTracking
    /\ watcherRef # <<>>
    /\ watchers > 0
    /\ JsGt(distanceTraveled, Whole(0))

\* C30: every sample the watcher delivers, whether its delta was added or
\* not, becomes the last sampled position: after every step of the watcher
\* callback lastLocationRef holds the position delivered last, and a delta
\* that is added is the distance from the position delivered just before,
\* not from the last one that was accepted.
C30_EverySampleBecomesLast ==
    [][\A location \in Positions :
           watchPosition_Callback(location) =>
               /\ lastLocationRef' = lastSample'
               /\ lastSample' = <<location>>
               /\ distanceTraveled' # distanceTraveled =>
                      /\ lastSample # <<>>
                      /\ distanceTraveled' =
                             JsAdd(distanceTraveled,
                                   calculateDistance(lastSample[1], location))]_vars

\* In the browser, 20 m were added and then a sample 5000 km away, which
\* the filter rejects, has become the last sampled position.
C30_Witness ==
    /\ isWeb
    /\ watchers > 0
    /\ lastSample = <<5000000>>
    /\ lastLocationRef = <<5000000>>
    /\ distanceTraveled = Fin(20, 1000)

\* The tariff a read of the store returns: the record, or the defaults
\* when there is none or the read failed.
TariffRead(item, ok) == IF ok /\ item # <<>> THEN item[1] ELSE DEFAULT_SETTINGS

\* C31: each distance update reads the tariff from the store again: the
\* fare set by updateDistance(d) is the fare of d under the tariff its own
\* read of the store returned, which also becomes the tariff the hook
\* holds; it is not computed with the tariff an earlier update left there.
C31_TariffRereadEachUpdate ==
    [][updateDistance_Then =>
           \E i \in 1 .. Len(pending), ok \in BOOLEAN :
               LET t        == TariffRead(store, ok)
                   subtotal == DaySubtotal(pending[i], t)
               IN  /\ distance' = pending[i]
                   /\ fareSettings' = t
                   /\ fare' = MathRound(IF isNight'
                                        THEN JsMul(Fin(3, 2), subtotal)
                                        ELSE subtotal)]_vars

\* Two samples were added in a session; the tariff with base fare 11 was
\* saved meanwhile, and the update of the 10 m total has priced it at 11.
C31_Witness ==
    /\ isRunning
    /\ distance = Fin(10, 1000)
    /\ store # <<>>
    /\ store[1].baseFare = Whole(11)
    /\ fareSettings = store[1]
    /\ fare = Whole(11)
    /\ pending = <<>>

\* C32: resetTracking sets the cumulative distance to 0 and clears both
\* the current location and the last-sample reference, so that the first
\* sample the watcher delivers after it adds no distance and becomes the
\* last sample.
C32_ResetTrackingClears ==
    [][/\ resetTracking =>
              /\ distanceTraveled' = Whole(0)
              /\ currentLocation' = <<>>
              /\ lastLocationRef' = <<>>
       /\ \A location \in Positions :
              (/\ lastCommand = "resetTracking"
               /\ lastLocationRef = <<>>
               /\ watchPosition_Callback(location))
              => /\ distanceTraveled' = Whole(0)
                 /\ distanceTraveled' = distanceTraveled
                 /\ lastLocationRef' = <<location>>]_vars

\* resetTracking was called in a session whose distance had been priced,
\* with the watcher live; a sample at 5 m delivered after it has become
\* the current location and the last sample, and the total is still 0.
C32_Witness ==
    /\ lastCommand = "resetTracking"
    /\ watchers > 0
    /\ lastSample = <<5>>
    /\ lastLocationRef = <<5>>
    /\ currentLocation = <<5>>
    /\ distanceTraveled = Whole(0)
    /\ JsGt(distance, Whole(0))

\* C33: lookups are debounced. Every change of the text replaces the
\* timeout awaiting, so the timeout that fires is that of the text in the
\* field, unchanged since it was set; a lookup is issued only by that
\* timeout, only for that text and only when it is longer than 2
\* characters; for a text of 2 characters or fewer the timeout clears the
\* suggestions and issues nothing.
C33_Debounced ==
    [][/\ \A text \in PlaceTexts :
              handleTextChange(text) =>
                  (delayedSearch' # <<>> /\ delayedSearch'[1].value = text
                   /\ lookups' = lookups)
       /\ delayedSearch_Timeout =>
              /\ delayedSearch[1].value = placeValue
              /\ IF Len(placeValue) > 2
                 THEN lookups' \subseteq lookups \cup {placeValue}
                 ELSE lookups' = lookups /\ suggestions' = <<>>
       /\ \A query \in lookups' \ lookups :
              /\ delayedSearch # <<>>
              /\ delayedSearch' = <<>>
              /\ query = placeValue
              /\ Len(query) > 2]_vars

\* A lookup was issued for 'abcd'; the text was then changed to 'ab', and
\* its timeout has fired: no lookup for it, no suggestions, none awaiting.
C33_Witness ==
    /\ isGoogleMapsLoaded
    /\ placeValue = <<"a", "b">>
    /\ delayedSearch = <<>>
    /\ lookups = {<<"a", "b", "c", "d">>}
    /\ suggestions = <<>>

\* C34: at most one position subscription is live at any time, and a live
\* one is the one watcherRef refers to: in every sequence of start, stop
\* and reset presses no watcher is left running without being referenced.
C34_AtMostOneSubscription ==
    /\ watchers <= 1
    /\ watchers = 1 => watcherRef # <<>>

\* The triple the meter displays is that of the initial or reset state, or
\* the fare is the engine's for the distance and the night flag displayed
\* under the tariff the hook holds.
TripleConsistent ==
    \/ (distance = Whole(0) /\ fare = Whole(0) /\ ~isNight)
    \/ fare = calculateFareInternal(distance, isNight, <<fareSettings>>,
                                    fareSettings)

\* C35: in every reachable state of the meter the displayed triple is
\* consistent: distance 0, fare 0 and isNight false, or the fare is the
\* engine's fare for the displayed distance and night flag under a tariff
\* read from the store (the record, or the defaults); and the three change
\* together: a step that changes one of them is a reset to the zero triple
\* or the completion of one update, which sets all three from its distance,
\* the hour and the tariff it read.
C35_TripleConsistent ==
    /\ []TripleConsistent
    /\ [][<<distance, isNight, fare>>' # <<distance, isNight, fare>> =>
              \/ (distance' = Whole(0) /\ fare' = Whole(0) /\ ~isNight')
              \/ \E i \in 1 .. Len(pending), ok \in BOOLEAN :
                     /\ fareSettings' = TariffRead(store, ok)
                     /\ distance' = pending[i]
                     /\ isNight' = isNightTime(hour)
                     /\ fare' = calculateFareInternal(pending[i],
                                                      isNightTime(hour),
                                                      <<TariffRead(store, ok)>>,
                                                      DEFAULT_SETTINGS)]_vars

\* A night session in manual mode displays 2 km priced under a stored
\* tariff that is not the default; an earlier reset had zeroed the triple.
C35_Witness ==
    /\ isRunning
    /\ isNight
    /\ distance = Whole(2)
    /\ store # <<>>
    /\ fareSettings = store[1]
    /\ fareSettings # DEFAULT_SETTINGS
    /\ fare = calculateFareInternal(Whole(2), TRUE, <<store[1]>>, DEFAULT_SETTINGS)
    /\ fare # Whole(0)

StoreHolds(t) == store # <<>> /\ JSONparse(store[1]) = t

\* C37: in the settings screen, a save that is accepted and written, and
\* a reset to the defaults, leave the store, the saved settings and the
\* edited settings all equal and hasChanges false; a save that is refused
\* leaves the store and the saved settings unchanged; and after every
\* step, once the effects have run, hasChanges is true exactly when the
\* edited settings differ from the saved settings.
C37_SettingsScreenConsistent ==
    [][/\ (saveSettings /\ store' # store) =>
              /\ StoreHolds(settingsState)'
              /\ settingsState' = tempSettings'
              /\ ~hasChanges'
       /\ (performReset /\ store' # store) =>
              /\ StoreHolds(DEFAULT_SETTINGS)'
              /\ settingsState' = DEFAULT_SETTINGS
              /\ tempSettings' = DEFAULT_SETTINGS
              /\ ~hasChanges'
       /\ (saveSettings /\ saveRejects(tempSettings)) =>
              UNCHANGED <<store, settingsState>>
       /\ hasChanges' = (tempSettings' # settingsState')]_vars


\* Helper of C38: no estimate is in flight and the button is enabled.
AttemptIdle == ~isLoading /\ estimatePc = "idle"

\* C38: every trip-estimate attempt that sets isLoading to true eventually
\* sets it back to false, whether the lookup resolves with a route, with
\* null or rejects: isLoading is true exactly while an attempt is in
\* flight, the step that ends an attempt leaves isLoading false, and
\* isLoading true leads to isLoading false. While a field trims to nothing
\* no step sets isLoading or puts a lookup in flight.
C38_LoadingEndsWithAttempt ==
    /\ [](isLoading <=> estimatePc # "idle")
    /\ [][(estimatePc = "lookup" /\ estimatePc' = "idle") => ~isLoading']_vars
    /\ isLoading ~> ~isLoading
    /\ [][(AttemptIdle /\ ~FieldsFilled)
              => (~isLoading' /\ estimatePc' = "idle")]_vars

\* C38 witness: a lookup that rejected has ended with isLoading false and
\* the alert 'Error' on screen.
C38_Witness ==
    /\ alert = "error"
    /\ ~isLoading
    /\ estimatePc = "idle"
    /\ FieldsFilled


\* C39: the fare preview of the settings screen agrees with the fare
\* engine: for every previewed distance and every edited tariff,
\* calculateExampleFare(d) is the value _calculateFareInternal returns for
\* d by day when it is passed the edited settings (the same number, or
\* NaN for both).
C39_PreviewAgreesWithEngine ==
    \A d \in ExampleDistances :
        calculateExampleFare(d) =
            calculateFareInternal(d, FALSE, <<tempSettings>>, DEFAULT_SETTINGS)

\* C39 witness: a tariff typed into the screen that is not the default
\* prices 5 km above its base fare, to a value rounding changes.
C39_Witness ==
    /\ tempSettings # DEFAULT_SETTINGS
    /\ calculateExampleFare(Whole(5)) # tempSettings.baseFare
    /\ calculateExampleFare(Whole(5)) # calculateExampleFare_Unrounded(Whole(5))
    /\ calculateExampleFare(Whole(5)).k = "num"

=============================================================================
